---- MODULE Spec2Model ----
(***************************************************************************)
(* Process lifecycle of the invoke library: one Environment of a chosen    *)
(* backend (local, ssh, docker), one Command started on it, the watcher    *)
(* and cancellation-monitor goroutines of its Process, the callers of      *)
(* Wait / Close / Signal, and the Executor's retry loop over an arbitrary  *)
(* Environment.                                                            *)
(***************************************************************************)
EXTENDS Integers, Sequences, FiniteSets, TLC

\* ------------------------------------------------------------------ bounds
MaxExit == 1
MaxCalls == 2
MaxAttempts == 3
\* Start calls made on one Environment
MaxStarts == 3

\* exit status the native layer reports for a SIGKILLed command
KilledLocal == -1
KilledRemote == 137
\* fallback exit code of the ssh watcher for a non exit-status failure
SshFallback == 255

\* exit codes a command may end with: the low codes, and the code the ssh
\* watcher also uses as its fallback
ExitCodes == (0..MaxExit) \cup {SshFallback}

Backends == {"local", "ssh", "docker"}
Callers == {"t1", "t2"}
Signals == {"interrupt", "kill", "other"}
\* the *Command handed to Start / Run: a well-formed one, a nil pointer, or
\* one whose Cmd is empty or blank
CommandForms == {"ok", "nil", "blank"}

\* ------------------------------------------------------------ error values
\* A Go error value: its dynamic type (kind) and, for exit-status errors,
\* the status it carries.
Err(k, c) == [kind |-> k, code |-> c]
Nil == Err("nil", 0)
\* *invoke.ExitError
ExitError(c) == Err("ExitError", c)
\* native exit-status errors: *exec.ExitError, *ssh.ExitError
ExecExit(c) == Err("execExit", c)
SshExit(c) == Err("sshExit", c)
\* context.Canceled, ssh.ExitMissingError / connection error, poll
\* deadline, daemon error, closed process, closed environment, ...
CtxErr == Err("ctx", 0)
ConnErr == Err("conn", 0)
PollTimeout == Err("deadline", 0)
DaemonErr == Err("daemon", 0)
ProcClosed == Err("procClosed", 0)
NotStarted == Err("notStarted", 0)
EnvClosedErr == Err("envClosed", 0)
NotSupported == Err("notSupported", 0)
SpawnErr == Err("spawn", 0)
InvalidCmd == Err("invalid", 0)
SigErr == Err("signal", 0)
EOFErr == Err("eof", 0)
OtherErr == Err("other", 0)
\* "no value yet"
NoErr == Err("none", 0)

NoResult == [set |-> FALSE, ExitCode |-> 0, Error |-> Nil]
MkResult(c, e) == [set |-> TRUE, ExitCode |-> c, Error |-> e]

VARIABLES
    backend,      \* which realization of the contract the Environment is
    cmd,          \* the Command: [code, tty]
    mode,         \* "start": caller uses Start and the Process; "run": Run;
                  \* "bare": caller holds a local Process that was built
                  \* without Start (&Process{env: env, cmd: cmd})
    envClosed,    \* Environment.closed
    active,       \* Environment.active
    clientCloses, \* calls of client.Close() (ssh connection, docker client)
    connUp,       \* ssh: the shared connection is alive
    ctxCancelled, \* the context passed to Start/Run is done
    cmdState,     \* the command itself: none / running / exited / killed
    startPc,      \* position of the Start call
    pClosed,      \* Process.closed
    result,       \* Process.result
    doneClosed,   \* Process.done is closed
    chanState,    \* ssh session / docker stream: none / open / ended
    nativeErr,    \* what the native wait will report once the command or
                  \* session has ended (local exec, ssh session)
    ctxInjected,  \* local: os/exec recorded ctx.Err() for its Wait
    copierDone,   \* docker: outputDone is closed
    wpc,          \* watcher goroutine position
    wres,         \* watcher's locals: the Result it is about to publish
    mpc,          \* cancellation monitor position (ssh, docker)
    releases,     \* session.Close() / stream.Close() calls
    kills,        \* killProcessGroup calls made by Close
    tPc,          \* per caller: position inside its current call
    calls,        \* API calls issued so far by the callers
    waitLog,      \* the Wait call that returned last
    closeLog,     \* the Process.Close call that returned last
    sigLog,       \* the Signal call that returned last
    opLog,        \* the environment operation that returned last
    runStep,      \* position of Environment.Run
    runRet,       \* what Run returned
    hist,         \* history flags of the run
    ex,           \* Executor.Run's state
    sh,           \* ssh: the Command handed to buildFullCommand and the
                  \* remote command line built from it
    ls,           \* Executor.RunLineStream's state
    starts,       \* several Start calls on one Environment: the position
                  \* of each
    group         \* local: the command's process group beyond the command
                  \* itself

procVars == <<pClosed, result, doneClosed, chanState, nativeErr, ctxInjected,
              copierDone, wpc, wres, mpc, releases, kills>>
envVars == <<envClosed, active, clientCloses, connUp>>
callVars == <<tPc, calls, waitLog, closeLog, sigLog, runStep, runRet>>
vars == <<backend, cmd, mode, envClosed, active, clientCloses, connUp,
          ctxCancelled, cmdState, startPc, pClosed, result, doneClosed,
          chanState, nativeErr, ctxInjected, copierDone, wpc, wres, mpc,
          releases, kills, tPc, calls, waitLog, closeLog, sigLog, opLog,
          runStep, runRet, hist, ex, sh, ls, starts, group>>

AllCallers == Callers \cup {"main"}

StartIds == 1..MaxStarts

NoHist == [cancelMid |-> FALSE, termMid |-> FALSE, envCloseMid |-> FALSE,
           fault |-> FALSE, sig |-> FALSE, close |-> FALSE,
           startOnClosed |-> FALSE, closeLive |-> {}, envCloseErr |-> FALSE]

NoRun == [returned |-> FALSE, hasRes |-> FALSE, ExitCode |-> 0, err |-> NoErr]

\* what a Run call hands back: a Result (possibly nil) and an error
Outcome(hasRes, code, e) == [hasRes |-> hasRes, code |-> code, err |-> e]
NoOutcome == Outcome(FALSE, 0, NoErr)

\* cfg.SudoConfig == nil
NoSudo == [set |-> FALSE, User |-> "", Group |-> "", PreserveEnv |-> FALSE,
           CustomFlags |-> <<>>]

\* no WithRetry option
NoRetry == [set |-> FALSE, attempts |-> 0]

\* RunBuffered has not returned
NoBuffered == [nonNil |-> FALSE, code |-> 0, err |-> NoErr, Stdout |-> <<>>,
               Stderr |-> <<>>, errStderr |-> <<>>]

\* bret: what RunBuffered returns; heap: the Command structs that exist,
\* arg: the caller's pointer, ptr: the pointer the running method holds,
\* orig: the caller's Command as it was at the call, passed: the Commands
\* env.Run received; stdoutBuf, stderrBuf: RunBuffered's two buffers
NoExec == [pc |-> "off", retry |-> NoRetry, attempts |-> 1, i |-> 0,
           log |-> <<>>,
           ctxDone |-> FALSE, last |-> NoOutcome, ret |-> NoOutcome,
           entry |-> "Run", sudo |-> NoSudo, heap |-> <<>>, arg |-> 0,
           ptr |-> 0, orig |-> <<>>, passed |-> <<>>, bret |-> NoBuffered,
           stdoutBuf |-> <<>>, stderrBuf |-> <<>>]

NoSh == [pc |-> "off"]
\* RunLineStream not called.  pc: the caller's goroutine, spc: the scanner
\* goroutine, proc: the started process, kinds: the lines the command is
\* about to print, wrote: how many of them have been written to the pipe,
\* pipe: the line a pending pw.Write offers, buf: the line the scanner has
\* read and not yet handed to onLine, delivered: the lines onLine received,
\* chan: scanErrCh, serr: scanner.Err().
NoLs == [pc |-> "off", spc |-> "none", proc |-> "none", kinds |-> <<>>,
         wrote |-> 0, pipe |-> 0, buf |-> 0, pwClosed |-> FALSE,
         prClosed |-> FALSE, delivered |-> <<>>, chan |-> NoErr,
         serr |-> NoErr, startErr |-> NoErr, waitErr |-> NoErr,
         ret |-> NoErr]

\* forks: the command leaves a descendant in its process group; piped: the
\* Command's Stdout or Stderr is a writer that is not an *os.File, so that
\* os/exec hands the command a pipe, which the descendant inherits; desc:
\* the descendant: none / running / exited / killed.
NoGroup == [forks |-> FALSE, piped |-> FALSE, desc |-> "none"]

\* State after constructing the Environment (providers/*/environment.go New)
\* and building a Command; no Process exists yet.
InitCommon ==
    /\ backend \in Backends
    /\ cmd \in [code : ExitCodes, tty : BOOLEAN, form : CommandForms]
    \* the pty flag only changes what the local backend does
    /\ cmd.tty => backend = "local"
    \* a nil or blank Command carries nothing else; a blank command line, if
    \* it gets as far as a shell, is a no-op that exits 0
    /\ cmd.form # "ok" => cmd.code = 0 /\ ~cmd.tty
    /\ envClosed = FALSE
    /\ active = 0
    /\ clientCloses = 0
    /\ connUp = TRUE
    /\ ctxCancelled = FALSE
    /\ cmdState = "none"
    /\ startPc = "idle"
    /\ pClosed = FALSE
    /\ result = NoResult
    /\ doneClosed = FALSE
    /\ chanState = "none"
    /\ nativeErr = NoErr
    /\ ctxInjected = "pending"
    /\ copierDone = FALSE
    /\ wpc = "none"
    /\ wres = NoResult
    /\ mpc = "none"
    /\ releases = 0
    /\ kills = 0
    /\ tPc = [t \in AllCallers |-> "idle"]
    /\ calls = 0
    /\ waitLog = {}
    /\ closeLog = {}
    /\ sigLog = {}
    /\ opLog = {}
    /\ runStep = "none"
    /\ runRet = NoRun
    /\ hist = NoHist
    /\ starts = [i \in StartIds |-> "none"]

\* Start / Run on a fresh Environment with any *Command, well-formed or not.
InitAnyCommand ==
    /\ InitCommon
    /\ mode \in {"start", "run", "bare"}
    /\ mode = "bare" => backend = "local" /\ cmd.form = "ok"
    /\ ex = NoExec
    /\ sh = NoSh
    /\ ls = NoLs
    /\ group = NoGroup

\* Start / Run with a well-formed Command.
Init ==
    /\ InitAnyCommand
    /\ cmd.form = "ok"

\* ------------------------------------------------------------ Environment

\* The closed-environment guard of an operation: Start (and so Run, and the
\* ssh/docker LookPath that goes through Run) tests e.closed under e.mu;
\* Upload, Download and the local LookPath test it on entry.
RejectsStartOnly(op) == envClosed /\ op = "Start"

Rejects(op) == envClosed

\* An environment operation that has returned e; closed: what it found the
\* Environment's closed flag to be.
OpRecord(op, e) == [op |-> op, err |-> e, closed |-> envClosed]

\* Command.Validate: nil and blank commands are refused.
Validate(c) == IF c.form = "ok" THEN Nil ELSE InvalidCmd

\* Whether Environment.Start begins with cmd.Validate(): the docker one does,
\* the ssh one does not, and of the two local Environment.Start in the tree
\* one does and the other leaves it to process.start.
ValidatesOnEntry ==
    IF backend = "docker" THEN {TRUE}
    ELSE IF backend = "ssh" THEN {FALSE}
    ELSE {TRUE, FALSE}

\* The local Environment.Start that does not validate formats its
\* closed-environment error with cmd.String(), which dereferences cmd.
ClosedMessagePanics == backend = "local" /\ cmd.form = "nil"

\* Environment.Start up to the point where the process is about to be
\* spawned: validation where there is one, the closed check and active++
\* under e.mu.
StartBegin ==
    /\ startPc = "idle"
    /\ mode # "bare"
    /\ \E v \in ValidatesOnEntry :
         IF v /\ Validate(cmd) # Nil
         THEN /\ opLog' = {OpRecord(IF mode = "run" THEN "Run" ELSE "Start",
                             Validate(cmd))}
              /\ UNCHANGED <<active, startPc>>
         ELSE IF Rejects("Start")
         THEN IF ClosedMessagePanics
              THEN /\ startPc' = "panicked"
                   /\ UNCHANGED <<active, opLog>>
              ELSE /\ opLog' = {OpRecord(IF mode = "run" THEN "Run"
                                         ELSE "Start", EnvClosedErr)}
                   /\ UNCHANGED <<active, startPc>>
         ELSE /\ active' = active + 1
              /\ startPc' = "spawn"
              /\ UNCHANGED opLog
    /\ hist' = [hist EXCEPT !.startOnClosed = @ \/ (startPc' = "spawn" /\ envClosed)]
    /\ UNCHANGED <<backend, cmd, mode, starts, group, sh, ls, envClosed, clientCloses, connUp,
                   ctxCancelled, cmdState, procVars, callVars, ex>>

LaunchErrorsNoTtyCheck ==
    IF backend = "local" /\ cmd.form # "ok" THEN {InvalidCmd}
    ELSE IF backend = "ssh" /\ ~connUp THEN {SpawnErr}
    ELSE {Nil, SpawnErr}

\* The error of a failed launch: the local process.start refuses what
\* validateCommand refuses, then a pty; the other failures come from the
\* native layer (exec, NewSession/RequestPty/Start, ExecCreate/ExecAttach).
LaunchErrors ==
    IF backend = "local" /\ cmd.form # "ok" THEN {InvalidCmd}
    ELSE IF backend = "local" /\ cmd.tty THEN {NotSupported}
    ELSE IF backend = "ssh" /\ ~connUp THEN {SpawnErr}
    ELSE {Nil, SpawnErr}

\* ssh process.start reads p.cmd.Stdout first: with a nil Command it panics,
\* after NewSession has opened the session.
StartPanics == backend = "ssh" /\ cmd.form = "nil"

\* Environment.Start from process.start on: on failure active-- and the
\* error; on success the command is in flight and the watcher (and, for ssh
\* and docker, the cancellation monitor and copier) goroutines exist.
StartSpawn ==
    /\ startPc = "spawn"
    /\ \E e \in LaunchErrors :
         IF e = Nil /\ StartPanics
         THEN /\ startPc' = "panicked"
              /\ chanState' = "open"
              /\ UNCHANGED <<active, opLog, runRet, runStep, cmdState,
                             wpc, mpc, group>>
         ELSE IF e # Nil
         THEN /\ active' = active - 1
              /\ startPc' = "failed"
              /\ opLog' = {[op |-> IF mode = "run" THEN "Run" ELSE "Start",
                            err |-> e, closed |-> hist.startOnClosed]}
              /\ runRet' = IF mode = "run"
                           THEN [NoRun EXCEPT !.returned = TRUE, !.err = e]
                           ELSE runRet
              /\ runStep' = IF mode = "run" THEN "ret" ELSE runStep
              /\ UNCHANGED <<cmdState, chanState, wpc, mpc, group>>
         ELSE /\ startPc' = "started"
              /\ cmdState' = "running"
              /\ group' = [group EXCEPT !.desc = IF group.forks THEN "running"
                                                ELSE @]
              /\ chanState' = IF backend = "local" THEN "none" ELSE "open"
              /\ wpc' = "wait"
              /\ mpc' = IF backend = "local" THEN "none" ELSE "select"
              /\ runStep' = IF mode = "run" THEN "wait" ELSE runStep
              /\ UNCHANGED <<active, opLog, runRet>>
    /\ UNCHANGED <<backend, cmd, mode, starts, sh, ls, envClosed, clientCloses, connUp,
                   ctxCancelled, pClosed, result, doneClosed, nativeErr,
                   ctxInjected, copierDone, wres, releases, kills, tPc,
                   calls, waitLog, closeLog, sigLog, hist, ex>>

\* Environment.Close of ssh and docker: `if e.closed { return nil }`
EnvCloseIsFirst == ~envClosed

\* What Environment.Close returns.  local: nil.  ssh and docker: nil when
\* already closed, otherwise what client.Close() returns: nil for the docker
\* client; for the ssh client nil, or the error of closing a connection
\* that the transport had already closed after it was lost.
EnvCloseErrors ==
    IF backend = "local" \/ ~EnvCloseIsFirst THEN {Nil}
    ELSE IF backend = "ssh" /\ ~connUp THEN {Nil, ConnErr}
    ELSE {Nil}

\* Environment.Close.  local: sets closed.  ssh: first call sets closed and
\* closes the client, which tears down the shared connection and with it
\* every open session.  docker: first call sets closed and closes the daemon
\* client (idle connections only; a hijacked stream is not one).
EnvClose ==
    /\ envClosed' = TRUE
    /\ IF backend = "local" \/ ~EnvCloseIsFirst
       THEN UNCHANGED <<clientCloses, connUp, chanState, nativeErr>>
       ELSE /\ clientCloses' = clientCloses + 1
            /\ IF backend = "ssh"
               THEN /\ connUp' = FALSE
                    /\ IF chanState = "open"
                       THEN chanState' = "ended" /\ nativeErr' = ConnErr
                       ELSE UNCHANGED <<chanState, nativeErr>>
               ELSE UNCHANGED <<connUp, chanState, nativeErr>>
    /\ \E e \in EnvCloseErrors :
         hist' = [hist EXCEPT !.envCloseMid = @ \/ cmdState = "running",
                              !.envCloseErr = @ \/ e # Nil]
    /\ UNCHANGED <<backend, cmd, mode, starts, group, sh, ls, active, ctxCancelled, cmdState,
                   startPc, pClosed, result, doneClosed, ctxInjected,
                   copierDone, wpc, wres, mpc, releases, kills, callVars,
                   opLog, ex>>

\* LookPath, Upload, Download: rejected on a closed environment, otherwise
\* carried out (the transfer or lookup itself succeeds or fails on its own).
EnvOp ==
    /\ \E op \in {"LookPath", "Upload", "Download"} :
         IF Rejects(op)
         THEN opLog' = {OpRecord(op, EnvClosedErr)}
         ELSE \E e \in {Nil, OtherErr} :
                opLog' = {OpRecord(op, e)}
    /\ UNCHANGED <<backend, cmd, mode, starts, group, sh, ls, envVars, ctxCancelled, cmdState,
                   startPc, procVars, callVars, hist, ex>>

\* The caller cancels the context it passed to Start / Run.
Cancel ==
    /\ startPc = "started"
    /\ ~ctxCancelled
    /\ ctxCancelled' = TRUE
    /\ hist' = [hist EXCEPT !.cancelMid = (cmdState = "running")]
    /\ UNCHANGED <<backend, cmd, mode, starts, group, sh, ls, envVars, cmdState, startPc, procVars,
                   callVars, opLog, ex>>

\* The command ends on its own with its exit code.
CmdExit ==
    /\ cmdState = "running"
    /\ cmdState' = "exited"
    /\ UNCHANGED <<backend, cmd, mode, starts, group, sh, ls, envVars, ctxCancelled, startPc,
                   procVars, callVars, opLog, hist, ex>>

\* ------------------------------------------------- native layer, per backend

\* local: what execCmd.Wait() returns.  A command ended by a signal, or with
\* a non-zero status, gives *exec.ExitError; a clean exit gives nil, or
\* ctx.Err() when os/exec had interrupted the command for a done context.
LocalExecWait ==
    IF cmdState = "killed" THEN ExecExit(KilledLocal)
    ELSE IF cmd.code # 0 THEN ExecExit(cmd.code)
    ELSE IF ctxInjected = "err" THEN CtxErr
    ELSE Nil

\* local: execCmd.ProcessState.ExitCode()
LocalExitCode == IF cmdState = "killed" THEN KilledLocal ELSE cmd.code

\* local: execCmd.Wait() returns only after os/exec's copying goroutines have
\* seen end of file on the pipes it handed to the command, which takes every
\* process that inherited them to have gone.
PipeHeld == group.piped /\ group.desc = "running"

\* local: the descendant ends on its own.
DescExit ==
    /\ group.desc = "running"
    /\ group' = [group EXCEPT !.desc = "exited"]
    /\ UNCHANGED <<backend, cmd, mode, starts, sh, ls, envVars, ctxCancelled,
                   cmdState, startPc, procVars, callVars, opLog, hist, ex>>

\* local: exec.CommandContext's own watcher: once the context is done and
\* Wait has not yet collected it, the process is killed; ctx.Err() is
\* recorded unless the process was already reaped.
LocalCtxKill ==
    /\ backend = "local"
    /\ ctxCancelled
    /\ wpc = "wait"
    /\ ctxInjected = "pending"
    /\ IF cmdState = "running"
       THEN /\ cmdState' = "killed"
            /\ ctxInjected' = "err"
            /\ hist' = [hist EXCEPT !.termMid = TRUE]
       ELSE /\ ctxInjected' \in {"err", "noerr"}
            /\ UNCHANGED <<cmdState, hist>>
    /\ UNCHANGED <<backend, cmd, mode, starts, group, sh, ls, envVars, ctxCancelled, startPc,
                   pClosed, result, doneClosed, chanState, nativeErr,
                   copierDone, wpc, wres, mpc, releases, kills, callVars,
                   opLog, ex>>

\* ssh: the server reports the end of the command (exit-status, or
\* exit-signal for a killed command) and closes the channel.
SshRemoteEnd ==
    /\ backend = "ssh"
    /\ chanState = "open"
    /\ cmdState \in {"exited", "killed"}
    /\ chanState' = "ended"
    /\ nativeErr' = IF cmdState = "killed" THEN SshExit(KilledRemote)
                    ELSE IF cmd.code # 0 THEN SshExit(cmd.code) ELSE Nil
    /\ UNCHANGED <<backend, cmd, mode, starts, group, sh, ls, envVars, ctxCancelled, cmdState,
                   startPc, pClosed, result, doneClosed, ctxInjected,
                   copierDone, wpc, wres, mpc, releases, kills, callVars,
                   opLog, hist, ex>>

\* ssh: the channel closes after the local session.Close() without an exit
\* status having arrived (session.Wait then reports a missing status).
SshCloseEnd ==
    /\ backend = "ssh"
    /\ chanState = "open"
    /\ releases > 0
    /\ chanState' = "ended"
    /\ nativeErr' = ConnErr
    /\ UNCHANGED <<backend, cmd, mode, starts, group, sh, ls, envVars, ctxCancelled, cmdState,
                   startPc, pClosed, result, doneClosed, ctxInjected,
                   copierDone, wpc, wres, mpc, releases, kills, callVars,
                   opLog, hist, ex>>

\* ssh: the connection is lost underneath the session (transport fault).
SshConnDrop ==
    /\ backend = "ssh"
    /\ connUp
    /\ chanState = "open"
    /\ connUp' = FALSE
    /\ chanState' = "ended"
    /\ nativeErr' = ConnErr
    /\ hist' = [hist EXCEPT !.fault = TRUE]
    /\ UNCHANGED <<backend, cmd, mode, starts, group, sh, ls, envClosed, active, clientCloses,
                   ctxCancelled, cmdState, startPc, pClosed, result,
                   doneClosed, ctxInjected, copierDone, wpc, wres, mpc,
                   releases, kills, callVars, opLog, ex>>

\* docker: the output copier returns and closes outputDone: the stream
\* reached its end because the command ended, or it was closed locally.
DockerCopierEnd ==
    /\ backend = "docker"
    /\ wpc # "none"
    /\ ~copierDone
    /\ ~(cmdState = "running" /\ chanState # "ended")
    /\ copierDone' = TRUE
    /\ UNCHANGED <<backend, cmd, mode, starts, group, sh, ls, envVars, ctxCancelled, cmdState,
                   startPc, pClosed, result, doneClosed, chanState,
                   nativeErr, ctxInjected, wpc, wres, mpc, releases, kills,
                   callVars, opLog, hist, ex>>

\* docker: the exec'd command may be ended by the hangup it observes after
\* the hijacked stream was closed (it may equally go on running).
DockerHangup ==
    /\ backend = "docker"
    /\ cmdState = "running"
    /\ chanState = "ended"
    /\ cmdState' = "killed"
    /\ UNCHANGED <<backend, cmd, mode, starts, group, sh, ls, envVars, ctxCancelled, startPc,
                   procVars, callVars, opLog, hist, ex>>

\* ------------------------------------------------------------- the watcher

AfterNativeWaitNoPublish == "dec"

\* watcher: what follows the native wait or the poll: the Result is
\* published, and only then do the deferred calls (decrementActive,
\* close(p.done)) run.
AfterNativeWait == "publish"

SshExitCodeNoStatus(e) == IF e = Nil THEN 0 ELSE SshFallback

\* ssh watcher: exit code for the error of session.Wait()
SshExitCode(e) ==
    IF e = Nil THEN 0
    ELSE IF e.kind = "sshExit" THEN e.code
    ELSE SshFallback

\* local watcher: execCmd.Wait() has returned; stamp exit code and error.
LocalWatcherWait ==
    /\ backend = "local"
    /\ wpc = "wait"
    /\ cmdState \in {"exited", "killed"}
    /\ ~PipeHeld
    /\ wres' = MkResult(LocalExitCode, LocalExecWait)
    /\ wpc' = AfterNativeWait
    /\ UNCHANGED <<backend, cmd, mode, starts, group, sh, ls, envVars, ctxCancelled, cmdState,
                   startPc, pClosed, result, doneClosed, chanState,
                   nativeErr, ctxInjected, copierDone, mpc, releases, kills,
                   callVars, opLog, hist, ex>>

\* ssh watcher: session.Wait() has returned; close(doneCheck), classify.
SshWatcherWait ==
    /\ backend = "ssh"
    /\ wpc = "wait"
    /\ chanState = "ended"
    /\ wres' = MkResult(SshExitCode(nativeErr), nativeErr)
    /\ wpc' = AfterNativeWait
    /\ UNCHANGED <<backend, cmd, mode, starts, group, sh, ls, envVars, ctxCancelled, cmdState,
                   startPc, pClosed, result, doneClosed, chanState,
                   nativeErr, ctxInjected, copierDone, mpc, releases, kills,
                   callVars, opLog, hist, ex>>

outputDoneNoWait == TRUE

\* docker watcher: <-outputDone can proceed
outputDone == copierDone

\* docker watcher: <-outputDone, close(doneCheck), then start polling.
DockerWatcherDrain ==
    /\ backend = "docker"
    /\ wpc = "wait"
    /\ outputDone
    /\ wpc' = "poll"
    /\ UNCHANGED <<backend, cmd, mode, starts, group, sh, ls, envVars, ctxCancelled, cmdState,
                   startPc, pClosed, result, doneClosed, chanState,
                   nativeErr, ctxInjected, copierDone, wres, mpc, releases,
                   kills, callVars, opLog, hist, ex>>

\* docker: the exit code the daemon's inspect reports for an ended exec
InspectExitCode == IF cmdState = "killed" THEN KilledRemote ELSE cmd.code

\* docker pollForExitCode, one ContainerExecInspect that fails: the poll
\* ends with the daemon's error and the zero inspect response.
DockerInspectErr ==
    /\ backend = "docker"
    /\ wpc \in {"poll", "repoll"}
    /\ wres' = MkResult(0, DaemonErr)
    /\ wpc' = AfterNativeWait
    /\ hist' = [hist EXCEPT !.fault = TRUE]
    /\ UNCHANGED <<backend, cmd, mode, starts, group, sh, ls, envVars, ctxCancelled, cmdState,
                   startPc, pClosed, result, doneClosed, chanState,
                   nativeErr, ctxInjected, copierDone, mpc, releases, kills,
                   callVars, opLog, ex>>

\* docker pollForExitCode, one ContainerExecInspect that succeeds: not
\* running ends the poll with the exit code; running goes on to the select
\* on the deadline and the ticker.
DockerInspect ==
    /\ backend = "docker"
    /\ wpc \in {"poll", "repoll"}
    /\ IF cmdState # "running"
       THEN /\ wres' = MkResult(InspectExitCode, Nil)
            /\ wpc' = AfterNativeWait
       ELSE /\ wpc' = "pollSelect"
            /\ UNCHANGED wres
    /\ UNCHANGED <<backend, cmd, mode, starts, group, sh, ls, envVars, ctxCancelled, cmdState,
                   startPc, pClosed, result, doneClosed, chanState,
                   nativeErr, ctxInjected, copierDone, mpc, releases, kills,
                   callVars, opLog, hist, ex>>

\* docker pollForExitCode: the ticker fires, poll again ("repoll": an
\* inspect that is not the first one).
DockerPollTick ==
    /\ backend = "docker"
    /\ wpc = "pollSelect"
    /\ wpc' = "repoll"
    /\ UNCHANGED <<backend, cmd, mode, starts, group, sh, ls, envVars, ctxCancelled, cmdState,
                   startPc, pClosed, result, doneClosed, chanState,
                   nativeErr, ctxInjected, copierDone, wres, mpc, releases,
                   kills, callVars, opLog, hist, ex>>

pollCtxNeverExpires == FALSE

\* docker pollForExitCode: pollCtx is context.WithTimeout(ctx, timeout), so
\* <-pollCtx.Done() becomes ready whatever the caller's context does
pollCtxExpires == TRUE

\* docker pollForExitCode: the poll's own deadline passes while the exec is
\* still reported running; the last inspect response (exit code 0) and the
\* deadline error are returned.
DockerPollDeadline ==
    /\ backend = "docker"
    /\ wpc = "pollSelect"
    /\ pollCtxExpires
    /\ wres' = MkResult(0, PollTimeout)
    /\ wpc' = AfterNativeWait
    /\ hist' = [hist EXCEPT !.fault = TRUE]
    /\ UNCHANGED <<backend, cmd, mode, starts, group, sh, ls, envVars, ctxCancelled, cmdState,
                   startPc, pClosed, result, doneClosed, chanState,
                   nativeErr, ctxInjected, copierDone, mpc, releases, kills,
                   callVars, opLog, ex>>

CallerLockedPcsCloseUnderLock == {"closeSelect", "closeKill", "closeJoin"}

\* The positions, among those a caller can be suspended at, where it holds
\* p.mu: none.  Wait releases its read lock before <-p.done; the local Close
\* unlocks before its select, kill and <-done; ssh and docker Close do not
\* suspend.
CallerLockedPcs == {}

\* p.mu is held by a caller that is suspended
muHeld == \E t \in AllCallers : tPc[t] \in CallerLockedPcs

\* watcher: p.result = &invoke.Result{...} under p.mu
WatcherPublish ==
    /\ wpc = "publish"
    /\ ~muHeld
    /\ result' = wres
    /\ wpc' = IF backend = "docker" THEN "release" ELSE "dec"
    /\ UNCHANGED <<backend, cmd, mode, starts, group, sh, ls, envVars, ctxCancelled, cmdState,
                   startPc, pClosed, doneClosed, chanState, nativeErr,
                   ctxInjected, copierDone, wres, mpc, releases, kills,
                   callVars, opLog, hist, ex>>

\* docker watcher: deferred p.stream.Close()
WatcherRelease ==
    /\ wpc = "release"
    /\ releases' = releases + 1
    /\ chanState' = "ended"
    /\ wpc' = "dec"
    /\ UNCHANGED <<backend, cmd, mode, starts, group, sh, ls, envVars, ctxCancelled, cmdState,
                   startPc, pClosed, result, doneClosed, nativeErr,
                   ctxInjected, copierDone, wres, mpc, kills, callVars,
                   opLog, hist, ex>>

\* watcher: deferred p.env.decrementActive()
WatcherDec ==
    /\ wpc = "dec"
    /\ active' = active - 1
    /\ wpc' = "close"
    /\ UNCHANGED <<backend, cmd, mode, starts, group, sh, ls, envClosed, clientCloses, connUp,
                   ctxCancelled, cmdState, startPc, pClosed, result,
                   doneClosed, chanState, nativeErr, ctxInjected, copierDone,
                   wres, mpc, releases, kills, callVars, opLog, hist, ex>>

\* watcher: deferred close(p.done)
WatcherCloseDone ==
    /\ wpc = "close"
    /\ doneClosed' = TRUE
    /\ wpc' = "done"
    /\ UNCHANGED <<backend, cmd, mode, starts, group, sh, ls, envVars, ctxCancelled, cmdState,
                   startPc, pClosed, result, chanState, nativeErr,
                   ctxInjected, copierDone, wres, mpc, releases, kills,
                   callVars, opLog, hist, ex>>

\* ------------------------------------------------ Process.Signal and Close

\* What a delivered signal does to the command: kill ends it; any other
\* signal ends it or is handled by it.
SignalOutcomes(sig) ==
    IF cmdState = "running"
    THEN IF sig = "kill" THEN {"killed"} ELSE {"killed", "running"}
    ELSE {cmdState}

streamStaysOpen(c) == c

\* HijackedResponse.Close(): the state of the hijacked stream afterwards
streamClose(c) == "ended"

SigUnsupported == Err("sigUnsupported", 0)

\* Process.Signal(sig) returning e, as one step under p.mu.RLock.
\*  local:  closed -> error; otherwise os.Process.Signal, which fails once
\*          the process has been waited for.
\*  ssh:    closed -> error; only interrupt and kill are mapped; the request
\*          fails on a channel that has ended.
\*  docker: closed -> error; otherwise the hijacked stream is closed,
\*          whatever the signal.
SignalStep(sig, e) ==
    IF pClosed
    THEN e = ProcClosed /\ UNCHANGED <<cmdState, releases, chanState>>
    ELSE IF backend = "local"
    THEN IF startPc # "started"
         THEN e = NotStarted /\ UNCHANGED <<cmdState, releases, chanState>>
         ELSE IF wpc # "wait"
         THEN e = SigErr /\ UNCHANGED <<cmdState, releases, chanState>>
         ELSE /\ e = Nil
              /\ cmdState' \in SignalOutcomes(sig)
              /\ UNCHANGED <<releases, chanState>>
    ELSE IF backend = "ssh"
    THEN IF sig = "other"
         THEN e = SigUnsupported
              /\ UNCHANGED <<cmdState, releases, chanState>>
         ELSE IF chanState # "open"
         THEN e = EOFErr /\ UNCHANGED <<cmdState, releases, chanState>>
         ELSE /\ e = Nil
              /\ cmdState' \in SignalOutcomes(sig)
              /\ UNCHANGED <<releases, chanState>>
    ELSE /\ e = Nil
         /\ releases' = releases + 1
         /\ chanState' = streamClose(chanState)
         /\ UNCHANGED cmdState

SignalErrors == {Nil, ProcClosed, NotStarted, SigErr, SigUnsupported, EOFErr}

\* ssh: what session.Close() returns: the channel layer answers io.EOF once
\* the channel has already been closed.
SessionCloseErr == IF chanState = "ended" THEN EOFErr ELSE Nil

\* ssh / docker Process.Close() returning e, as one step under p.mu.Lock:
\* already closed -> nil; otherwise closed = true and the session (ssh) or
\* the hijacked stream (docker) is closed.
CloseStep(e) ==
    IF pClosed
    THEN e = Nil /\ UNCHANGED <<pClosed, releases, chanState>>
    ELSE /\ pClosed' = TRUE
         /\ releases' = releases + 1
         /\ IF backend = "ssh"
            THEN e = SessionCloseErr /\ UNCHANGED chanState
            ELSE e = Nil /\ chanState' = "ended"

CloseErrors == {Nil, EOFErr}

\* ------------------------------------------- the cancellation monitor

\* ssh / docker monitor: select takes the <-ctx.Done() branch.
MonitorSelectCancel ==
    /\ mpc = "select"
    /\ ctxCancelled
    /\ mpc' = "signal"
    /\ UNCHANGED <<backend, cmd, mode, starts, group, sh, ls, envVars, ctxCancelled, cmdState,
                   startPc, pClosed, result, doneClosed, chanState,
                   nativeErr, ctxInjected, copierDone, wpc, wres, releases,
                   kills, callVars, opLog, hist, ex>>

doneCheckNeverClosed == FALSE

\* ssh / docker watcher: close(doneCheck) follows session.Wait() / <-outputDone
doneCheckClosed == wpc \notin {"none", "wait"}

\* ssh / docker monitor: select takes the <-doneCheck branch (the watcher
\* has closed doneCheck after its native wait / output drain).
MonitorSelectDone ==
    /\ mpc = "select"
    /\ doneCheckClosed
    /\ mpc' = "done"
    /\ UNCHANGED <<backend, cmd, mode, starts, group, sh, ls, envVars, ctxCancelled, cmdState,
                   startPc, pClosed, result, doneClosed, chanState,
                   nativeErr, ctxInjected, copierDone, wpc, wres, releases,
                   kills, callVars, opLog, hist, ex>>

\* monitor: _ = p.Signal(os.Kill)
MonitorSignal ==
    /\ mpc = "signal"
    /\ ~muHeld
    /\ \E e \in SignalErrors :
         /\ SignalStep("kill", e)
         /\ hist' = [hist EXCEPT
                !.termMid = @ \/ (e = Nil /\ cmdState = "running")]
    /\ mpc' = "close"
    /\ UNCHANGED <<backend, cmd, mode, starts, group, sh, ls, envVars, ctxCancelled, startPc,
                   pClosed, result, doneClosed, nativeErr, ctxInjected,
                   copierDone, wpc, wres, kills, callVars, opLog, ex>>

\* monitor: _ = p.Close()
MonitorClose ==
    /\ mpc = "close"
    /\ ~muHeld
    /\ \E e \in CloseErrors : CloseStep(e)
    /\ mpc' = "done"
    /\ UNCHANGED <<backend, cmd, mode, starts, group, sh, ls, envVars, ctxCancelled, cmdState,
                   startPc, result, doneClosed, nativeErr, ctxInjected,
                   copierDone, wpc, wres, kills, callVars, opLog, hist, ex>>

\* ------------------------------------------------ Wait / Close / Signal calls

\* Who may issue the call op now: Run's own goroutine in the order of Run's
\* body, or a caller holding the Process returned by Start.
CanCall(t, op) ==
    /\ tPc[t] = "idle"
    /\ ~muHeld
    /\ IF t = "main"
       THEN mode = "run" /\ runStep = op
       ELSE /\ \/ mode = "start" /\ startPc = "started"
               \/ mode = "bare"
            /\ calls < MaxCalls
            \* the callers run the same code: t1 is the one that calls first
            /\ t = "t2" => calls > 0

Counted(t) == IF t = "main" THEN calls ELSE calls + 1

\* Process.Wait's translation of the published Result into its return value.
LocalWaitErr(r) ==
    IF r.Error # Nil
    THEN IF r.Error.kind = "execExit" THEN ExitError(r.Error.code)
         ELSE r.Error
    ELSE Nil

SshWaitErrUnconverted(r) == r.Error

\* ssh Process.Wait after <-p.done
SshWaitErr(r) ==
    IF r.Error # Nil
    THEN IF r.Error.kind = "sshExit" THEN ExitError(r.Error.code)
         ELSE r.Error
    ELSE Nil

DockerWaitErrErrorOnly(r) == r.Error

\* docker Process.Wait after <-p.done
DockerWaitErr(r) ==
    IF r.Error # Nil THEN r.Error
    ELSE IF r.ExitCode # 0 THEN ExitError(r.ExitCode)
    ELSE Nil

WaitErr(r) ==
    IF backend = "local" THEN LocalWaitErr(r)
    ELSE IF backend = "ssh" THEN SshWaitErr(r)
    ELSE DockerWaitErr(r)

\* A Wait call that has returned e: whether it had blocked on done, and, at
\* its entry, whether Close had been called on the Process and whether the
\* Process had been started.
WaitRec(t, e, blocked) ==
    [err |-> e, blocked |-> blocked,
     afterClose |-> IF blocked THEN tPc[t] = "waitBlockedClosed"
                    ELSE hist.close,
     started |-> startPc = "started"]

\* Environment.Run, what follows Wait returning e.  local, docker and one ssh
\* Environment.Run go on to process.Result() whatever Wait returned; the
\* other ssh Environment.Run in the tree returns (nil, err) when Wait failed,
\* leaving only the deferred Close.
RunStepsAfterWait(e) ==
    IF backend = "ssh" /\ e # Nil THEN {"result", "close"} ELSE {"result"}

\* Environment.Run, after Wait returned e: keep it as the error to return.
RunAfterWait(t, e) ==
    IF t = "main"
    THEN /\ runStep' \in RunStepsAfterWait(e)
         /\ runRet' = [runRet EXCEPT !.err = e]
    ELSE UNCHANGED <<runStep, runRet>>

WaitRefusalNoClosedCheck ==
    IF backend = "local" /\ startPc # "started" THEN NotStarted
    ELSE Nil

\* Process.Wait, the checks under p.mu.RLock before blocking: a closed
\* Process is refused; the local Wait also refuses one whose done channel
\* was never made.  Nil: go on to <-p.done.
WaitRefusal ==
    IF pClosed THEN ProcClosed
    ELSE IF backend = "local" /\ startPc # "started" THEN NotStarted
    ELSE Nil

\* Process.Wait, entry: refused, otherwise block on done.
CallWait(t) ==
    /\ CanCall(t, "wait")
    /\ IF WaitRefusal # Nil
       THEN /\ waitLog' = {WaitRec(t, WaitRefusal, FALSE)}
            /\ RunAfterWait(t, WaitRefusal)
            /\ UNCHANGED tPc
       ELSE /\ tPc' = [tPc EXCEPT ![t] = IF hist.close
                                         THEN "waitBlockedClosed"
                                         ELSE "waitBlocked"]
            /\ UNCHANGED <<waitLog, runStep, runRet>>
    /\ calls' = Counted(t)
    /\ UNCHANGED <<backend, cmd, mode, starts, group, sh, ls, envVars, ctxCancelled, cmdState,
                   startPc, procVars, closeLog, sigLog, opLog, hist, ex>>

\* Process.Wait, after <-p.done: return per the published Result.
WaitReturn(t) ==
    /\ tPc[t] \in {"waitBlocked", "waitBlockedClosed"}
    /\ doneClosed
    /\ ~muHeld
    /\ waitLog' = {WaitRec(t, WaitErr(result), TRUE)}
    /\ RunAfterWait(t, WaitErr(result))
    /\ tPc' = [tPc EXCEPT ![t] = "idle"]
    /\ UNCHANGED <<backend, cmd, mode, starts, group, sh, ls, envVars, ctxCancelled, cmdState,
                   startPc, procVars, calls, closeLog, sigLog, opLog, hist,
                   ex>>

\* Environment.Run: res := process.Result() (never nil), kept for the return.
RunResult ==
    /\ mode = "run"
    /\ runStep = "result"
    /\ ~muHeld
    /\ runRet' = [runRet EXCEPT !.hasRes = TRUE, !.ExitCode = result.ExitCode]
    /\ runStep' = "close"
    /\ UNCHANGED <<backend, cmd, mode, starts, group, sh, ls, envVars, ctxCancelled, cmdState,
                   startPc, procVars, tPc, calls, waitLog, closeLog, sigLog,
                   opLog, hist, ex>>

\* A Process.Close call that has returned e; live: the command was still
\* running when the call was made.  For the local Close, pending: the
\* watcher was unfinished when the call was made and found the Process
\* closed or not started, or when its select looked at done; killed: the
\* call went through killProcessGroup.
CloseRec(t, e) ==
    [err |-> e,
     live |-> IF tPc[t] = "idle" THEN cmdState = "running"
              ELSE t \in hist.closeLive,
     pending |-> /\ backend = "local"
                 /\ IF tPc[t] = "idle"
                    THEN startPc = "started" /\ ~doneClosed
                    ELSE tPc[t] = "closeJoin",
     killed |-> tPc[t] = "closeJoin"]

\* Environment.Run: the deferred process.Close() has returned, Run returns.
RunAfterClose(t) ==
    IF t = "main"
    THEN /\ runStep' = "ret"
         /\ runRet' = [runRet EXCEPT !.returned = TRUE]
    ELSE UNCHANGED <<runStep, runRet>>

\* local Close: shouldKill, true of a Process that was started
shouldKill == startPc = "started"

\* Process.Close.  ssh and docker do all of it in one critical section.  The
\* local one marks the Process closed under the lock and, when shouldKill,
\* goes on outside the lock to the kill-and-join part.
CallClose(t) ==
    /\ CanCall(t, "close")
    /\ IF backend = "local"
       THEN /\ IF pClosed
               THEN /\ closeLog' = {CloseRec(t, Nil)}
                    /\ RunAfterClose(t)
                    /\ UNCHANGED <<tPc, pClosed>>
               ELSE IF ~shouldKill
               THEN /\ pClosed' = TRUE
                    /\ closeLog' = {CloseRec(t, Nil)}
                    /\ RunAfterClose(t)
                    /\ UNCHANGED tPc
               ELSE /\ pClosed' = TRUE
                    /\ tPc' = [tPc EXCEPT ![t] = "closeSelect"]
                    /\ UNCHANGED <<closeLog, runStep, runRet>>
            /\ UNCHANGED <<releases, chanState>>
       ELSE /\ \E e \in CloseErrors :
                 /\ CloseStep(e)
                 /\ closeLog' = {CloseRec(t, e)}
            /\ RunAfterClose(t)
            /\ UNCHANGED tPc
    /\ calls' = Counted(t)
    /\ hist' = [hist EXCEPT !.close = @ \/ t # "main",
                            !.closeLive =
                                IF cmdState = "running"
                                   /\ tPc'[t] = "closeSelect"
                                THEN @ \cup {t} ELSE @ \ {t}]
    /\ UNCHANGED <<backend, cmd, mode, starts, group, sh, ls, envVars, ctxCancelled, cmdState,
                   startPc, result, doneClosed, nativeErr, ctxInjected,
                   copierDone, wpc, wres, mpc, kills, waitLog, sigLog,
                   opLog, ex>>

\* local Close: select on done; completed -> return nil, else go and kill.
LocalCloseSelect(t) ==
    /\ tPc[t] = "closeSelect"
    /\ IF doneClosed
       THEN /\ closeLog' = {CloseRec(t, Nil)}
            /\ RunAfterClose(t)
            /\ tPc' = [tPc EXCEPT ![t] = "idle"]
       ELSE /\ tPc' = [tPc EXCEPT ![t] = "closeKill"]
            /\ UNCHANGED <<closeLog, runStep, runRet>>
    /\ UNCHANGED <<backend, cmd, mode, starts, group, sh, ls, envVars, ctxCancelled, cmdState,
                   startPc, procVars, calls, waitLog, sigLog, opLog, hist,
                   ex>>

\* syscall.Kill(-pid, SIGKILL): every process still in the group is killed
SignalGroup(g) == [g EXCEPT !.desc = IF @ = "running" THEN "killed" ELSE @]

\* local Close: killProcessGroup(pid)
LocalCloseKill(t) ==
    /\ tPc[t] = "closeKill"
    /\ kills' = kills + 1
    /\ cmdState' = IF cmdState = "running" THEN "killed" ELSE cmdState
    /\ group' = SignalGroup(group)
    /\ tPc' = [tPc EXCEPT ![t] = "closeJoin"]
    /\ UNCHANGED <<backend, cmd, mode, starts, sh, ls, envVars, ctxCancelled, startPc,
                   pClosed, result, doneClosed, chanState, nativeErr,
                   ctxInjected, copierDone, wpc, wres, mpc, releases, calls,
                   waitLog, closeLog, sigLog, runStep, runRet, opLog, hist,
                   ex>>

\* local Close: <-done, then return nil
LocalCloseJoin(t) ==
    /\ tPc[t] = "closeJoin"
    /\ doneClosed
    /\ closeLog' = {CloseRec(t, Nil)}
    /\ RunAfterClose(t)
    /\ tPc' = [tPc EXCEPT ![t] = "idle"]
    /\ UNCHANGED <<backend, cmd, mode, starts, group, sh, ls, envVars, ctxCancelled, cmdState,
                   startPc, procVars, calls, waitLog, sigLog, opLog, hist,
                   ex>>

\* Process.Signal by a caller holding the Process.
CallSignal(t) ==
    /\ t # "main"
    /\ CanCall(t, "signal")
    /\ \E sig \in Signals, e \in SignalErrors :
         /\ SignalStep(sig, e)
         /\ sigLog' = {[sig |-> sig, err |-> e, closed |-> pClosed,
                         live |-> ~pClosed /\ cmdState = "running",
                         effect |-> \/ cmdState' # cmdState
                                    \/ chanState' # chanState]}
    /\ calls' = Counted(t)
    /\ hist' = [hist EXCEPT !.sig = TRUE]
    /\ UNCHANGED <<backend, cmd, mode, starts, group, sh, ls, envVars, ctxCancelled, startPc,
                   pClosed, result, doneClosed, nativeErr, ctxInjected,
                   copierDone, wpc, wres, mpc, kills, tPc, waitLog,
                   closeLog, runStep, runRet, opLog, ex>>

\* The steps of the command, the native layer, the watcher and the monitor.
Internal ==
    \/ CmdExit
    \/ LocalCtxKill
    \/ SshRemoteEnd
    \/ SshCloseEnd
    \/ DockerCopierEnd
    \/ DockerHangup
    \/ LocalWatcherWait
    \/ SshWatcherWait
    \/ DockerWatcherDrain
    \/ DockerInspect
    \/ DockerPollTick
    \/ DockerPollDeadline
    \/ WatcherPublish
    \/ WatcherRelease
    \/ WatcherDec
    \/ WatcherCloseDone

\* The positions a caller is suspended at: <-p.done in Wait and in the
\* local Close.
SuspendedPcs == {"waitBlocked", "waitBlockedClosed", "closeJoin"}

\* ------------------------------------------------------- the specification
Next ==
    \/ StartBegin
    \/ StartSpawn
    \/ EnvClose
    \/ Cancel
    \/ CmdExit
    \/ LocalCtxKill
    \/ SshRemoteEnd
    \/ SshCloseEnd
    \/ SshConnDrop
    \/ DockerCopierEnd
    \/ DockerHangup
    \/ LocalWatcherWait
    \/ SshWatcherWait
    \/ DockerWatcherDrain
    \/ DockerInspectErr
    \/ DockerInspect
    \/ DockerPollTick
    \/ DockerPollDeadline
    \/ WatcherPublish
    \/ WatcherRelease
    \/ WatcherDec
    \/ WatcherCloseDone
    \/ MonitorSelectCancel
    \/ MonitorSelectDone
    \/ MonitorSignal
    \/ MonitorClose
    \/ RunResult
    \/ \E t \in AllCallers : CallWait(t)
    \/ \E t \in AllCallers : WaitReturn(t)
    \/ \E t \in AllCallers : CallClose(t)
    \/ \E t \in AllCallers : LocalCloseSelect(t)
    \/ \E t \in AllCallers : LocalCloseKill(t)
    \/ \E t \in AllCallers : LocalCloseJoin(t)
    \/ \E t \in Callers : CallSignal(t)

Spec == Init /\ [][Next]_vars

TypeOK ==
    /\ active \in 0..1
    /\ cmdState \in {"none", "running", "exited", "killed"}
    /\ wpc \in {"none", "wait", "poll", "repoll", "pollSelect", "publish", "release",
                "dec", "close", "done"}
    /\ mpc \in {"none", "select", "signal", "close", "done"}
    /\ calls \in 0..MaxCalls

\* Concurrent callers, the watcher and the monitor of one Process, without
\* transport faults and without Environment.Close.
InitLocks ==
    /\ Init
    /\ cmd.code = 0
    /\ ~cmd.tty

NextLocks ==
    \/ Internal
    \/ StartBegin
    \/ StartSpawn
    \/ Cancel
    \/ MonitorSelectCancel
    \/ MonitorSelectDone
    \/ MonitorSignal
    \/ MonitorClose
    \/ RunResult
    \/ \E t \in AllCallers : CallWait(t)
    \/ \E t \in AllCallers : WaitReturn(t)
    \/ \E t \in AllCallers : CallClose(t)
    \/ \E t \in AllCallers : LocalCloseSelect(t)
    \/ \E t \in AllCallers : LocalCloseKill(t)
    \/ \E t \in AllCallers : LocalCloseJoin(t)
    \/ \E t \in Callers : CallSignal(t)

SpecLocks == InitLocks /\ [][NextLocks]_vars

\* The docker watcher and its exit-code poll, with callers of Wait and the
\* caller's context.  An inspect call returns; the ticker and the poll's
\* deadline are timers, and the deadline passes after finitely many ticks.
InitPoll ==
    /\ Init
    /\ backend = "docker"
    /\ mode = "start"

NextPoll ==
    \/ StartBegin
    \/ StartSpawn
    \/ Cancel
    \/ CmdExit
    \/ DockerCopierEnd
    \/ DockerHangup
    \/ DockerWatcherDrain
    \/ DockerInspectErr
    \/ DockerInspect
    \/ DockerPollTick
    \/ DockerPollDeadline
    \/ WatcherPublish
    \/ WatcherRelease
    \/ WatcherDec
    \/ WatcherCloseDone
    \/ MonitorSelectCancel
    \/ MonitorSelectDone
    \/ MonitorSignal
    \/ MonitorClose
    \/ \E t \in Callers : CallWait(t)
    \/ \E t \in Callers : WaitReturn(t)

SpecPoll ==
    /\ InitPoll
    /\ [][NextPoll]_vars
    /\ WF_vars(DockerInspect \/ DockerInspectErr)
    /\ WF_vars(DockerPollTick \/ DockerPollDeadline)
    /\ SF_vars(DockerPollDeadline)

\* Environment operations on top of a Process that runs undisturbed:
\* Start / Run, Close, LookPath, Upload, Download.
NextEnv ==
    \/ StartBegin
    \/ StartSpawn
    \/ EnvClose
    \/ EnvOp
    \/ CmdExit
    \/ SshRemoteEnd
    \/ DockerCopierEnd
    \/ LocalWatcherWait
    \/ SshWatcherWait
    \/ DockerWatcherDrain
    \/ DockerInspect
    \/ WatcherPublish
    \/ WatcherRelease
    \/ WatcherDec
    \/ WatcherCloseDone
    \/ MonitorSelectDone
    \/ RunResult
    \/ \E t \in {"main"} : CallWait(t)
    \/ \E t \in {"main"} : WaitReturn(t)
    \/ \E t \in {"main"} : CallClose(t)
    \/ \E t \in {"main"} : LocalCloseSelect(t)

SpecEnv == Init /\ [][NextEnv]_vars

\* The same operations, the Command being any *Command.
SpecAnyCommand == InitAnyCommand /\ [][NextEnv]_vars

\* ------------------------------------------------------------ Executor.Run

\* What env.Run may hand back on its n-th call: a success, a nil Result with
\* a nil error, a non-zero Result with a nil error, a non-zero Result with
\* the matching *ExitError, or a launch / transport error (a different error
\* value on every call) with or without a best-effort Result.
TransportErr(n) == Err("transport", n)

RunOutcomes(n) ==
    {Outcome(TRUE, 0, Nil), Outcome(FALSE, 0, Nil)}
    \cup {Outcome(TRUE, c, Nil) : c \in ExitCodes \ {0}}
    \cup {Outcome(TRUE, c, ExitError(c)) : c \in ExitCodes \ {0}}
    \cup {Outcome(FALSE, 0, TransportErr(n)),
          Outcome(TRUE, SshFallback, TransportErr(n))}
    \cup {Outcome(FALSE, 0, NotSupported), Outcome(FALSE, 0, EnvClosedErr)}

ExecSuccessNilOnly(o) == o.err = Nil /\ ~o.hasRes

\* executor.go: lastErr == nil && (lastRes == nil || lastRes.ExitCode == 0)
ExecSuccess(o) == o.err = Nil /\ (~o.hasRes \/ o.code = 0)

ExecTerminalNever(o) == FALSE

\* executor.go: errors.As(lastErr, &exitErr)
ExecTerminal(o) == o.err.kind = "ExitError"

ExecAssignKeepFirst(old, new) ==
    IF old.err.kind = "transport" THEN [new EXCEPT !.err = old.err] ELSE new

\* executor.go: lastRes, lastErr = e.env.Run(ctx, cmd)
ExecAssign(old, new) == new

\* *TransportError{Err: e}: the wrapper keeps the identity of e, and Unwrap
\* gives e back
TransportError(e) ==
    [kind |-> "TransportError", code |-> e.code, wraps |-> e.kind]

\* errors.Is(e, target) for a sentinel of kind k: e itself, or what a
\* *TransportError unwraps to
ErrorsIs(e, k) ==
    \/ e.kind = k
    \/ e.kind = "TransportError" /\ e.wraps = k

\* the failure categories a caller can tell apart: errors.As with
\* *ExitError / *TransportError, errors.Is with ErrNotSupported /
\* ErrEnvironmentClosed
Categories(e) ==
    {c \in {"ExitError", "TransportError"} : e.kind = c}
    \cup {c \in {"notSupported", "envClosed"} : ErrorsIs(e, c)}

ExecFinalNoExitError(o) ==
    IF o.err # Nil THEN Outcome(o.hasRes, o.code, TransportError(o.err))
    ELSE Outcome(o.hasRes, o.code, Nil)

\* executor.go, after the loop: what Run returns once the attempts are used up
ExecFinal(o) ==
    IF o.err # Nil THEN Outcome(o.hasRes, o.code, TransportError(o.err))
    ELSE IF o.hasRes /\ o.code # 0
    THEN Outcome(TRUE, o.code, ExitError(o.code))
    ELSE Outcome(o.hasRes, o.code, Nil)

\* WithSudo(...): the SudoConfig the options build
SudoConfigs ==
    [set : {TRUE}, User : {"", "postgres"}, Group : {"", "admin"},
     PreserveEnv : BOOLEAN, CustomFlags : {<<>>, <<"--custom">>}]
    \cup {NoSudo}

\* the Commands a caller supplies
CallerCommands ==
    [Cmd : {"ps"}, Args : {<<"aux">>}, Stdin : {"nil"},
     Stdout : {"nil", "w"}, Stderr : {"nil"}, Tty : {FALSE}]

Entries == {"Run", "RunBuffered", "RunInteractiveTTY", "RunLineStream"}

SudoArgsNoSeparator(sc, c) ==
    <<"-n">>
    \o (IF sc.User # "" THEN <<"-u", sc.User>> ELSE <<>>)
    \o (IF sc.Group # "" THEN <<"-g", sc.Group>> ELSE <<>>)
    \o (IF sc.PreserveEnv THEN <<"-E">> ELSE <<>>)
    \o sc.CustomFlags
    \o <<c.Cmd>>

\* applySudo: sudoArgs
SudoArgs(sc, c) ==
    <<"-n">>
    \o (IF sc.User # "" THEN <<"-u", sc.User>> ELSE <<>>)
    \o (IF sc.Group # "" THEN <<"-g", sc.Group>> ELSE <<>>)
    \o (IF sc.PreserveEnv THEN <<"-E">> ELSE <<>>)
    \o sc.CustomFlags
    \o <<"--", c.Cmd>>

\* applySudo: newCmd, the wrapped Command value
SudoCommand(sc, c) ==
    [c EXCEPT !.Cmd = "sudo", !.Args = SudoArgs(sc, c) \o c.Args]

CloneAlias(h, p, c) == [heap |-> [h EXCEPT ![p] = c], ptr |-> p]

\* cmdCopy := *cmd; <field writes>; &cmdCopy: the rewritten value c lives in
\* a struct of its own, the struct behind p is left as it is
Clone(h, p, c) == [heap |-> Append(h, c), ptr |-> Len(h) + 1]

\* applySudo(cfg, cmd): the pointer Run goes on with, and the heap
applySudo(sc, h, p) ==
    IF ~sc.set THEN [heap |-> h, ptr |-> p]
    ELSE Clone(h, p, SudoCommand(sc, h[p]))

\* RunInteractiveTTY: the fields set on cmdCopy
TtyCommand(c) ==
    [c EXCEPT !.Tty = TRUE,
              !.Stdin = IF @ = "nil" THEN "os.Stdin" ELSE @,
              !.Stdout = IF @ = "nil" THEN "os.Stdout" ELSE @,
              !.Stderr = IF @ = "nil" THEN "os.Stderr" ELSE @]

\* RunBuffered: the fields set on cmdCopy
BufferedCommand(c) ==
    [c EXCEPT !.Stdout = "stdoutBuf", !.Stderr = "stderrBuf"]

\* bound of the number of lines a command prints
MaxLines == 2

\* a line is complete (newline-terminated); "long" is one that exceeds the
\* scanner's token limit
LineLists == UNION {[1..n -> {"line", "long"}] : n \in 0..MaxLines}

\* bufio.ErrTooLong
ScanErr == Err("scan", 0)
\* fmt.Errorf("scan error: %w", scanErr)
WrappedScanErr == Err("scanWrapped", 0)

\* RunLineStream: the fields set on cmdCopy
StreamCommand(c) == [c EXCEPT !.Stdout = "pw"]

\* the options a caller passes: none, or WithRetry(attempts, delay)
RetryOptions ==
    {NoRetry} \cup [set : {TRUE}, attempts : (-1)..MaxAttempts]

RetryAttemptsUnclamped(r) == IF r.set THEN r.attempts ELSE 1

\* cfg.RetryAttempts once the options are applied: 1 unless WithRetry sets
\* it, and WithRetry raises anything below 1 to 1
RetryAttempts(r) ==
    IF ~r.set THEN 1
    ELSE IF r.attempts < 1 THEN 1
    ELSE r.attempts

InitExec ==
    /\ InitCommon
    /\ mode = "run"
    /\ backend = "local"
    /\ cmd = [code |-> 0, tty |-> FALSE, form |-> "ok"]
    /\ group = NoGroup
    /\ \E r \in RetryOptions, en \in Entries, sc \in SudoConfigs,
          c \in CallerCommands :
         /\ ex = [NoExec EXCEPT !.pc = "entry", !.retry = r,
                                !.attempts = RetryAttempts(r),
                                !.entry = en, !.sudo = sc, !.heap = <<c>>,
                                !.arg = 1, !.ptr = 1, !.orig = c]
         \* RunLineStream ignores its options
         /\ en = "RunLineStream" => (r = NoRetry /\ sc = NoSudo)
    /\ sh = NoSh
    /\ IF ex.entry = "RunLineStream"
       THEN \E ks \in LineLists : ls = [NoLs EXCEPT !.kinds = ks]
       ELSE ls = NoLs

\* Executor.Run called directly: nothing happens before its body.
ExecEnterRun ==
    /\ ex.pc = "entry"
    /\ ex.entry = "Run"
    /\ ex' = [ex EXCEPT !.pc = "run"]
    /\ UNCHANGED <<backend, cmd, mode, starts, group, sh, ls, envVars, ctxCancelled, cmdState,
                   startPc, procVars, callVars, opLog, hist>>

\* RunBuffered up to its call of e.Run(ctx, &cmdCopy, opts...).
RunBufferedEnter ==
    /\ ex.pc = "entry"
    /\ ex.entry = "RunBuffered"
    /\ LET n == Clone(ex.heap, ex.ptr, BufferedCommand(ex.heap[ex.ptr]))
       IN  ex' = [ex EXCEPT !.pc = "run", !.heap = n.heap, !.ptr = n.ptr]
    /\ UNCHANGED <<backend, cmd, mode, starts, group, sh, ls, envVars, ctxCancelled, cmdState,
                   startPc, procVars, callVars, opLog, hist>>

\* RunInteractiveTTY up to its call of e.Run(ctx, &cmdCopy, opts...); when
\* stdin is the terminal, term.MakeRaw may fail and end the call.
RunInteractiveTTYEnter ==
    /\ ex.pc = "entry"
    /\ ex.entry = "RunInteractiveTTY"
    /\ \E raw \in {"ok", "fail"} :
         LET n == Clone(ex.heap, ex.ptr, TtyCommand(ex.heap[ex.ptr]))
         IN  ex' = IF raw = "fail"
                   THEN [ex EXCEPT !.pc = "done", !.heap = n.heap,
                              !.ptr = n.ptr,
                              !.ret = Outcome(FALSE, 0, Err("raw", 0))]
                   ELSE [ex EXCEPT !.pc = "run", !.heap = n.heap,
                              !.ptr = n.ptr]
    /\ UNCHANGED <<backend, cmd, mode, starts, group, sh, ls, envVars, ctxCancelled, cmdState,
                   startPc, procVars, callVars, opLog, hist>>

\* Executor.Run before its loop: the options are applied and applySudo
\* rewrites the command once.
ExecBegin ==
    /\ ex.pc = "run"
    /\ LET n == applySudo(ex.sudo, ex.heap, ex.ptr)
       IN  ex' = [ex EXCEPT !.pc = IF 0 < ex.attempts THEN "call"
                                   ELSE "exhaust",
                            !.heap = n.heap, !.ptr = n.ptr]
    /\ UNCHANGED <<backend, cmd, mode, starts, group, sh, ls, envVars, ctxCancelled, cmdState,
                   startPc, procVars, callVars, opLog, hist>>

AttachStderrNever(e, buf) == <<>>

\* RunBuffered: the Stderr of the *ExitError found in err by errors.As (the
\* ExitErrors of Run and of the backends come with none): the captured one
AttachStderr(e, buf) == IF e.kind = "ExitError" THEN buf ELSE <<>>

\* RunBuffered after e.Run has returned: bufResult is never nil and takes
\* the Result's fields; the error is Run's.
RunBufferedReturn ==
    /\ ex.pc = "done"
    /\ ex.entry = "RunBuffered"
    /\ ex.bret = NoBuffered
    /\ ex' = [ex EXCEPT !.bret =
                 [nonNil |-> TRUE, code |-> ex.ret.code, err |-> ex.ret.err,
                  Stdout |-> ex.stdoutBuf, Stderr |-> ex.stderrBuf,
                  errStderr |-> AttachStderr(ex.ret.err, ex.stderrBuf)]]
    /\ UNCHANGED <<backend, cmd, mode, starts, group, sh, ls, envVars, ctxCancelled, cmdState,
                   startPc, procVars, callVars, opLog, hist>>
    /\ sh = NoSh
    /\ ls = NoLs

\* The caller's context is cancelled while Executor.Run is under way.
ExecCancel ==
    /\ ex.pc \in {"call", "delay"}
    /\ ~ex.ctxDone
    /\ ex' = [ex EXCEPT !.ctxDone = TRUE]
    /\ UNCHANGED <<backend, cmd, mode, starts, group, sh, ls, envVars, ctxCancelled, cmdState,
                   startPc, procVars, callVars, opLog, hist>>

\* What the n-th run of the command prints on each of its two streams: a
\* chunk of its own when a command was run at all.
Output(o, n) == IF o.hasRes THEN <<n>> ELSE <<>>

WrittenOverwrites(buf, name, w, o, n) ==
    IF w = name THEN Output(o, n) ELSE buf

\* bytes.Buffer.Write by the command whose stream is the writer w: what it
\* prints is appended to the buffer of that name
Written(buf, name, w, o, n) == IF w = name THEN buf \o Output(o, n) ELSE buf

\* Executor.Run, one attempt: env.Run, then the success test and the
\* ExitError test; otherwise on to the next iteration, or out of the loop.
ExecAttempt ==
    /\ ex.pc = "call"
    /\ \E o \in RunOutcomes(ex.i + 1) :
         LET last == ExecAssign(ex.last, o)
             c == ex.heap[ex.ptr]
             ex1 == [ex EXCEPT !.log = Append(@, o), !.last = last,
                               !.i = @ + 1,
                               !.passed = Append(@, c),
                               !.stdoutBuf = Written(@, "stdoutBuf", c.Stdout,
                                                     o, ex.i + 1),
                               !.stderrBuf = Written(@, "stderrBuf", c.Stderr,
                                                     o, ex.i + 1)]
         IN  ex' = IF ExecSuccess(last)
                   THEN [ex1 EXCEPT !.pc = "done",
                                    !.ret = Outcome(last.hasRes, last.code, Nil)]
                   ELSE IF ExecTerminal(last)
                   THEN [ex1 EXCEPT !.pc = "done", !.ret = last]
                   ELSE IF ex1.i < ex.attempts
                   THEN [ex1 EXCEPT !.pc = "delay"]
                   ELSE [ex1 EXCEPT !.pc = "exhaust"]
    /\ UNCHANGED <<backend, cmd, mode, starts, group, sh, ls, envVars, ctxCancelled, cmdState,
                   startPc, procVars, callVars, opLog, hist>>

\* Executor.wait before a further attempt: the delay elapses.
ExecDelay ==
    /\ ex.pc = "delay"
    /\ ex' = [ex EXCEPT !.pc = "call"]
    /\ UNCHANGED <<backend, cmd, mode, starts, group, sh, ls, envVars, ctxCancelled, cmdState,
                   startPc, procVars, callVars, opLog, hist>>

DelayCancelledKeepsLast(last) == Outcome(last.hasRes, last.code, CtxErr)

\* Executor.Run when e.wait fails: return nil, err
DelayCancelled(last) == Outcome(FALSE, 0, CtxErr)

\* Executor.wait before a further attempt: the context is done; Run returns
\* nil and ctx.Err().
ExecDelayCancelled ==
    /\ ex.pc = "delay"
    /\ ex.ctxDone
    /\ ex' = [ex EXCEPT !.pc = "done", !.ret = DelayCancelled(ex.last)]
    /\ UNCHANGED <<backend, cmd, mode, starts, group, sh, ls, envVars, ctxCancelled, cmdState,
                   startPc, procVars, callVars, opLog, hist>>

\* Executor.Run after the loop.
ExecExhaust ==
    /\ ex.pc = "exhaust"
    /\ ex' = [ex EXCEPT !.pc = "done", !.ret = ExecFinal(ex.last)]
    /\ UNCHANGED <<backend, cmd, mode, starts, group, sh, ls, envVars, ctxCancelled, cmdState,
                   startPc, procVars, callVars, opLog, hist>>

\* ------------------------------------------------ Executor.RunLineStream

\* RunLineStream up to the start of the scanner goroutine: the pipe, the
\* copy of the Command with Stdout = pw, e.Start; a failed Start ends the
\* call.
RunLineStreamEnter ==
    /\ ex.pc = "entry"
    /\ ex.entry = "RunLineStream"
    /\ LET n == Clone(ex.heap, ex.ptr, StreamCommand(ex.heap[ex.ptr]))
       IN  ex' = [ex EXCEPT !.pc = "stream", !.heap = n.heap, !.ptr = n.ptr]
    /\ \E e \in {Nil, SpawnErr} :
         ls' = IF e # Nil
               THEN [ls EXCEPT !.pc = "done", !.startErr = e, !.ret = e]
               ELSE [ls EXCEPT !.pc = "wait", !.spc = "scan",
                               !.proc = "running", !.startErr = Nil]
    /\ UNCHANGED <<backend, cmd, mode, starts, group, sh, envVars, ctxCancelled, cmdState,
                   startPc, procVars, callVars, opLog, hist>>

\* The process prints its next line: pw.Write blocks until the line is read.
LsWrite ==
    /\ ls.proc = "running"
    /\ ls.wrote < Len(ls.kinds)
    /\ ls.pipe = 0
    /\ ~ls.prClosed
    /\ ls' = [ls EXCEPT !.wrote = @ + 1, !.pipe = ls.wrote + 1]
    /\ UNCHANGED <<backend, cmd, mode, starts, group, sh, envVars, ctxCancelled, cmdState,
                   startPc, procVars, callVars, opLog, hist, ex>>

\* The process ends once nothing is left to print or its output has been
\* refused (the read end is closed); Wait will return nil or an error.
LsProcExit ==
    /\ ls.proc = "running"
    /\ ls.pipe = 0
    /\ ~(ls.wrote < Len(ls.kinds) /\ ~ls.prClosed)
    /\ \E e \in {Nil, ExitError(1), ConnErr} :
         ls' = [ls EXCEPT !.proc = "exited", !.waitErr = e]
    /\ UNCHANGED <<backend, cmd, mode, starts, group, sh, envVars, ctxCancelled, cmdState,
                   startPc, procVars, callVars, opLog, hist, ex>>

\* scanner.Scan() reads the offered line: a line within the limit becomes
\* the next token; a longer one makes Scan fail with ErrTooLong, and the
\* write stays pending.
LsScanRead ==
    /\ ls.spc = "scan"
    /\ ls.buf = 0
    /\ ls.pipe # 0
    /\ ls' = IF ls.kinds[ls.pipe] = "long"
             THEN [ls EXCEPT !.spc = "send", !.serr = ScanErr]
             ELSE [ls EXCEPT !.buf = ls.pipe, !.pipe = 0]
    /\ UNCHANGED <<backend, cmd, mode, starts, group, sh, envVars, ctxCancelled, cmdState,
                   startPc, procVars, callVars, opLog, hist, ex>>

\* onLine(scanner.Text())
LsOnLine ==
    /\ ls.spc = "scan"
    /\ ls.buf # 0
    /\ ls' = [ls EXCEPT !.delivered = Append(@, ls.buf), !.buf = 0]
    /\ UNCHANGED <<backend, cmd, mode, starts, group, sh, envVars, ctxCancelled, cmdState,
                   startPc, procVars, callVars, opLog, hist, ex>>

\* scanner.Scan() meets the end of the stream: pw is closed.
LsScanEOF ==
    /\ ls.spc = "scan"
    /\ ls.buf = 0
    /\ ls.pipe = 0
    /\ ls.pwClosed
    /\ ls' = [ls EXCEPT !.spc = "send", !.serr = Nil]
    /\ UNCHANGED <<backend, cmd, mode, starts, group, sh, envVars, ctxCancelled, cmdState,
                   startPc, procVars, callVars, opLog, hist, ex>>

\* scanErrCh <- scanner.Err()   (the channel has room for one value)
LsSend ==
    /\ ls.spc = "send"
    /\ ls' = [ls EXCEPT !.spc = "closePr", !.chan = ls.serr]
    /\ UNCHANGED <<backend, cmd, mode, starts, group, sh, envVars, ctxCancelled, cmdState,
                   startPc, procVars, callVars, opLog, hist, ex>>

\* the scanner goroutine's deferred pr.Close(): a pending write fails
LsClosePr ==
    /\ ls.spc = "closePr"
    /\ ls' = [ls EXCEPT !.spc = "done", !.prClosed = TRUE, !.pipe = 0]
    /\ UNCHANGED <<backend, cmd, mode, starts, group, sh, envVars, ctxCancelled, cmdState,
                   startPc, procVars, callVars, opLog, hist, ex>>

\* waitErr := proc.Wait() returns
LsWaitReturn ==
    /\ ls.pc = "wait"
    /\ ls.proc = "exited"
    /\ ls' = [ls EXCEPT !.pc = "closePw"]
    /\ UNCHANGED <<backend, cmd, mode, starts, group, sh, envVars, ctxCancelled, cmdState,
                   startPc, procVars, callVars, opLog, hist, ex>>

\* _ = pw.Close()
LsClosePw ==
    /\ ls.pc = "closePw"
    /\ ls' = [ls EXCEPT !.pc = "recv", !.pwClosed = TRUE]
    /\ UNCHANGED <<backend, cmd, mode, starts, group, sh, envVars, ctxCancelled, cmdState,
                   startPc, procVars, callVars, opLog, hist, ex>>

ScanResultReadyNoWait == TRUE

\* scanErr := <-scanErrCh can proceed
ScanResultReady == ls.chan # NoErr

LsReturnErrScanFirst(waitErr, scanErr) ==
    IF scanErr \notin {Nil, NoErr} THEN WrappedScanErr
    ELSE waitErr

\* RunLineStream's return value from waitErr and scanErr
LsReturnErr(waitErr, scanErr) ==
    IF waitErr # Nil THEN waitErr
    ELSE IF scanErr \notin {Nil, NoErr} THEN WrappedScanErr
    ELSE Nil

\* scanErr := <-scanErrCh, the return, and the deferred proc.Close()
LsRecv ==
    /\ ls.pc = "recv"
    /\ ScanResultReady
    /\ ls' = [ls EXCEPT !.pc = "done",
                        !.ret = LsReturnErr(ls.waitErr, ls.chan)]
    /\ UNCHANGED <<backend, cmd, mode, starts, group, sh, envVars, ctxCancelled, cmdState,
                   startPc, procVars, callVars, opLog, hist, ex>>

LsScanner == LsScanRead \/ LsOnLine \/ LsScanEOF \/ LsSend \/ LsClosePr

LsCaller == LsWaitReturn \/ LsClosePw \/ LsRecv

NextStream ==
    \/ RunLineStreamEnter
    \/ LsWrite
    \/ LsProcExit
    \/ LsScanner
    \/ LsCaller

InitStream == InitExec /\ ex.entry = "RunLineStream"

\* the goroutines of RunLineStream are scheduled
SpecStream ==
    InitStream /\ [][NextStream]_vars
    /\ WF_vars(LsScanner) /\ WF_vars(LsCaller)

NextExec ==
    \/ NextStream
    \/ ExecEnterRun
    \/ RunBufferedEnter
    \/ RunInteractiveTTYEnter
    \/ ExecBegin
    \/ RunBufferedReturn
    \/ ExecCancel
    \/ ExecAttempt
    \/ ExecDelay
    \/ ExecDelayCancelled
    \/ ExecExhaust

SpecExec == InitExec /\ [][NextExec]_vars

\* ------------------------------------------- ssh: the remote command line
\* A Go string is a sequence of one-character strings.

\* bounds of the inputs
MaxStr == 2
MaxArgs == 1

ArgChars == {"a", " ", ";", "'"}

\* all strings over ArgChars of length at most MaxStr
ArgStrings == UNION {[1..n -> ArgChars] : n \in 0..MaxStr}

\* Command.Env samples: well-formed entries, an entry without "=", a value
\* holding a single quote
EnvKv == <<"K", "=", "v">>
EnvBare == <<"K">>
EnvQuote == <<"Q", "=", "'">>
EnvLists == {<<>>, <<EnvKv>>, <<EnvBare>>, <<EnvBare, EnvKv>>,
             <<EnvQuote, EnvKv>>}

\* Command.Dir samples
DirStrings == {<<>>, <<"/", "t">>, <<"'">>}

RECURSIVE Concat(_)
\* strings.Builder: the pieces written, joined
Concat(ss) == IF ss = <<>> THEN <<>> ELSE Head(ss) \o Concat(Tail(ss))

\* strings.Contains(s, " ")
HasSpace(s) == \E i \in 1..Len(s) : s[i] = " "

RECURSIVE EscapeQuotes(_)
\* strings.ReplaceAll(s, "'", "'\\''")
EscapeQuotes(s) ==
    IF s = <<>> THEN <<>>
    ELSE (IF Head(s) = "'" THEN <<"'", "\\", "'", "'">> ELSE <<Head(s)>>)
         \o EscapeQuotes(Tail(s))

RECURSIVE GoEscape(_)
\* the body of fmt's %q: backslash and double quote are escaped
GoEscape(s) ==
    IF s = <<>> THEN <<>>
    ELSE (IF Head(s) \in {"\"", "\\"} THEN <<"\\", Head(s)>> ELSE <<Head(s)>>)
         \o GoEscape(Tail(s))

\* fmt.Fprintf(&b, "%q", arg)
GoQuote(s) == <<"\"">> \o GoEscape(s) \o <<"\"">>

\* Command.String, one argument: " " and the argument, %q-quoted only when
\* it contains a space
StringArg(a) == <<" ">> \o (IF HasSpace(a) THEN GoQuote(a) ELSE a)

\* Command.String
CommandString(c) ==
    IF Len(c.Args) = 0 THEN c.Cmd
    ELSE c.Cmd \o Concat([i \in 1..Len(c.Args) |-> StringArg(c.Args[i])])

\* strings.Cut(env, "="): position of the first "=", 0 when there is none
CutAt(e) ==
    IF \E i \in 1..Len(e) : e[i] = "="
    THEN CHOOSE i \in 1..Len(e) :
           e[i] = "=" /\ \A j \in 1..(i - 1) : e[j] # "="
    ELSE 0

\* buildEnvPrefix, one entry
EnvEntryPrefix(e, isWindows) ==
    IF CutAt(e) = 0 THEN <<>>
    ELSE LET k == SubSeq(e, 1, CutAt(e) - 1)
             v == SubSeq(e, CutAt(e) + 1, Len(e))
         IN  (IF isWindows THEN <<"$", "e", "n", "v", ":">>
                           ELSE <<"e", "x", "p", "o", "r", "t", " ">>)
             \o k \o <<"=", "'">> \o EscapeQuotes(v) \o <<"'", ";", " ">>

\* buildEnvPrefix
buildEnvPrefix(envs, isWindows) ==
    Concat([i \in 1..Len(envs) |-> EnvEntryPrefix(envs[i], isWindows)])

\* buildDirPrefix
buildDirPrefix(dir, isWindows) ==
    IF dir = <<>> THEN <<>>
    ELSE <<"c", "d", " ", "'">> \o EscapeQuotes(dir)
         \o (IF isWindows THEN <<"'", ";", " ">>
                          ELSE <<"'", " ", "&", "&", " ">>)

\* buildFullCommand
buildFullCommand(c, isWindows) ==
    buildEnvPrefix(c.Env, isWindows) \o buildDirPrefix(c.Dir, isWindows)
    \o CommandString(c)

\* The Commands handed to the ssh Process
ShCommands ==
    [Cmd : {<<"b">>},
     Args : UNION {[1..n -> ArgStrings] : n \in 0..MaxArgs},
     Env : EnvLists,
     Dir : DirStrings]

InitSsh ==
    /\ InitCommon
    /\ mode = "start"
    /\ backend = "ssh"
    /\ cmd = [code |-> 0, tty |-> FALSE, form |-> "ok"]
    /\ group = NoGroup
    /\ ex = NoExec
    /\ ls = NoLs
    /\ \E c \in ShCommands, w \in BOOLEAN :
         sh = [pc |-> "in", c |-> c, isWindows |-> w, line |-> <<>>]

\* ssh Process.start: fullCommand := buildFullCommand(p.cmd, isWindows)
SshBuildLine ==
    /\ sh.pc = "in"
    /\ sh' = [sh EXCEPT !.pc = "built",
                        !.line = buildFullCommand(sh.c, sh.isWindows)]
    /\ UNCHANGED <<backend, cmd, mode, starts, group, ls, envVars, ctxCancelled, cmdState,
                   startPc, procVars, callVars, opLog, hist, ex>>

NextSsh == SshBuildLine

SpecSsh == InitSsh /\ [][NextSsh]_vars

\* ================================================================ claims

\* C1: a command that ends on its own with exit code N, run without
\* cancellation, Signal, Close before Wait, Environment.Close or transport
\* fault: Result().ExitCode = N; Wait and Run return nil when N = 0 and an
\* ExitError carrying N otherwise; on every backend.
C1_ExitCodeContract ==
    (/\ cmdState = "exited"
     /\ ~ctxCancelled /\ ~envClosed
     /\ ~hist.sig /\ ~hist.close /\ ~hist.fault)
    => /\ \A r \in waitLog :
            /\ result.set
            /\ result.ExitCode = cmd.code
            /\ r.err = IF cmd.code = 0 THEN Nil ELSE ExitError(cmd.code)
       /\ runRet.returned =>
            /\ runRet.hasRes => runRet.ExitCode = cmd.code
            /\ runRet.err = IF cmd.code = 0 THEN Nil ELSE ExitError(cmd.code)

C1_Witness ==
    /\ backend = "ssh"
    /\ cmd.code = 1
    /\ cmdState = "exited"
    /\ ~ctxCancelled /\ ~envClosed
    /\ ~hist.sig /\ ~hist.close /\ ~hist.fault
    /\ runRet.returned
    /\ runRet.err = ExitError(1)
    /\ runRet.ExitCode = 1

\* C2 (as claimed): once the termination triggered by a cancelled context
\* has acted on a command that was still running, every Wait returns a
\* non-nil error (it does not wait for and report the command's own end).
C2_CancelledWaitFails ==
    hist.termMid => \A r \in waitLog : r.err # Nil

\* C3 (as claimed): every Process.Close returns nil, Close kills at most
\* once, and the session or stream of a closed Process has been released
\* exactly once.
C3_CloseOnce ==
    /\ \A r \in closeLog : r.err = Nil
    /\ kills <= 1
    /\ (pClosed /\ backend # "local") => releases = 1

\* C4: on a closed environment Start, Run, LookPath, Upload and Download
\* return an error, and no Start gets past the closed check (no active++,
\* no process).
C4_ClosedEnvRejects ==
    /\ \A r \in opLog : r.closed => r.err # Nil
    /\ ~hist.startOnClosed

C4_Witness ==
    /\ envClosed
    /\ active = 1
    /\ cmdState = "running"
    /\ \E r \in opLog : r.closed /\ r.op = "Upload" /\ r.err = EnvClosedErr

\* C5 (as claimed): a Process in flight when the Environment is closed, and
\* otherwise left alone, completes with the command's own exit code: Wait
\* and Result report it as they would without the Close.
C5_EnvCloseKeepsInFlight ==
    (/\ hist.envCloseMid
     /\ ~ctxCancelled /\ ~hist.sig /\ ~hist.close /\ ~hist.fault)
    => \A r \in waitLog :
         r.blocked =>
           /\ result.ExitCode = cmd.code
           /\ r.err = IF cmd.code = 0 THEN Nil ELSE ExitError(cmd.code)

\* C6: k < N attempts failing with errors that are not ExitErrors, followed
\* by an attempt that succeeds, make Executor.Run return that attempt's
\* Result and a nil error after exactly k+1 calls of env.Run.
C6_RetryUntilSuccess ==
    \A k \in 1..Len(ex.log) :
      (/\ \A j \in 1..(k - 1) :
            ex.log[j].err # Nil /\ ex.log[j].err.kind # "ExitError"
       /\ ex.log[k] = Outcome(TRUE, 0, Nil))
      => /\ Len(ex.log) = k
         /\ ex.i = k
         /\ ex.pc = "done"
         /\ ex.ret = Outcome(TRUE, 0, Nil)

C6_Witness ==
    /\ ex.pc = "done"
    /\ ex.attempts = 3
    /\ Len(ex.log) = 3
    /\ ex.log[1].err = TransportErr(1)
    /\ ex.log[2].err = TransportErr(2)
    /\ ex.log[3] = Outcome(TRUE, 0, Nil)
    /\ ex.ret = Outcome(TRUE, 0, Nil)

\* C7 (as claimed): after an attempt in which the command ran to completion
\* with a non-zero exit status, Executor.Run makes no further attempt and
\* returns an ExitError.
C7_NonZeroNeverRetried ==
    \A k \in 1..Len(ex.log) :
      (/\ ex.log[k].hasRes /\ ex.log[k].code # 0
       /\ ex.log[k].err.kind \in {"nil", "ExitError"})
      => /\ Len(ex.log) = k
         /\ ex.pc \in {"exhaust", "done"}
         /\ ex.pc = "done" => ex.ret.err.kind = "ExitError"

\* C7 (amended): after an attempt for which env.Run returned an ExitError,
\* Executor.Run makes no further attempt and returns that attempt's Result
\* and ExitError.
C7_ExitErrorNeverRetried ==
    \A k \in 1..Len(ex.log) :
      ex.log[k].err.kind = "ExitError"
      => /\ Len(ex.log) = k
         /\ ex.pc = "done"
         /\ ex.ret = ex.log[k]

C7_Witness ==
    /\ ex.pc = "done"
    /\ ex.attempts = 3
    /\ Len(ex.log) = 1
    /\ ex.log[1] = Outcome(TRUE, 1, ExitError(1))
    /\ ex.ret = Outcome(TRUE, 1, ExitError(1))

\* C8: when every attempt returns a non-zero Result with a nil error and
\* Run is not cut short by cancellation, Run calls env.Run exactly N times
\* and returns the last Result with an ExitError carrying its exit code.
C8_NonZeroNilExhausts ==
    (/\ ex.pc = "done"
     /\ ex.ret.err # CtxErr
     /\ Len(ex.log) >= 1
     /\ \A j \in 1..Len(ex.log) :
          ex.log[j].hasRes /\ ex.log[j].code # 0 /\ ex.log[j].err = Nil)
    => /\ Len(ex.log) = ex.attempts
       /\ ex.i = ex.attempts
       /\ ex.ret = Outcome(TRUE, ex.log[Len(ex.log)].code,
                           ExitError(ex.log[Len(ex.log)].code))

C8_Witness ==
    /\ ex.pc = "done"
    /\ ex.attempts = 2
    /\ Len(ex.log) = 2
    /\ ex.log[1] = Outcome(TRUE, 1, Nil)
    /\ ex.log[2] = Outcome(TRUE, SshFallback, Nil)
    /\ ex.ret = Outcome(TRUE, SshFallback, ExitError(SshFallback))

\* C9: when all N attempts fail with errors that are not ExitErrors, Run
\* returns after exactly N calls with a TransportError wrapping the error of
\* the last attempt, together with the last attempt's Result.
C9_ExhaustedWrapsLast ==
    (/\ ex.pc = "done"
     /\ ex.ret.err # CtxErr
     /\ Len(ex.log) >= 1
     /\ \A j \in 1..Len(ex.log) :
          ex.log[j].err # Nil /\ ex.log[j].err.kind # "ExitError")
    => /\ Len(ex.log) = ex.attempts
       /\ ex.i = ex.attempts
       /\ ex.ret = Outcome(ex.log[Len(ex.log)].hasRes,
                           ex.log[Len(ex.log)].code,
                           TransportError(ex.log[Len(ex.log)].err))

C9_Witness ==
    /\ ex.pc = "done"
    /\ ex.attempts = 3
    /\ Len(ex.log) = 3
    /\ ex.log[1] = Outcome(TRUE, SshFallback, TransportErr(1))
    /\ ex.log[3] = Outcome(FALSE, 0, TransportErr(3))
    /\ ex.ret = Outcome(FALSE, 0, TransportError(TransportErr(3)))

\* C10 (as claimed): once the termination triggered by a cancelled context
\* has acted on a command that was still running, the error of Wait and of
\* Run is not an ExitError.
C10_CancelNotExitError ==
    hist.termMid =>
      /\ \A r \in waitLog : r.err.kind # "ExitError"
      /\ runStep \in {"result", "close", "ret"}
           => runRet.err.kind # "ExitError"

\* C11 (as claimed): a context cancelled only after the command has ended on
\* its own changes nothing: the monitor issues neither Signal nor Close, and
\* every Wait returns the natural outcome.
C11_LateCancelNoEffect ==
    (/\ ctxCancelled /\ ~hist.cancelMid
     /\ cmdState = "exited"
     /\ ~envClosed /\ ~hist.sig /\ ~hist.close /\ ~hist.fault)
    => /\ mpc \notin {"signal", "close"}
       /\ \A r \in waitLog :
            r.err = IF cmd.code = 0 THEN Nil ELSE ExitError(cmd.code)

\* C12 (as claimed): Signal with a signal other than interrupt or kill, on a
\* Process that is open and whose command is running, returns the typed
\* not-supported error and does nothing to the process.
C12_OtherSignalNotSupported ==
    \A r \in sigLog :
      (r.sig = "other" /\ r.live) => (r.err = NotSupported /\ ~r.effect)

\* C13: a local Start or Run of a Command with Tty set fails with an error
\* wrapping ErrNotSupported: no command is spawned, no watcher exists, and
\* the active count is back at its value before the call.
C13_LocalTtyRejected ==
    (backend = "local" /\ cmd.tty /\ startPc \notin {"idle", "spawn"})
    => /\ startPc = "failed"
       /\ \E r \in opLog : r.op \in {"Start", "Run"} /\ r.err = NotSupported
       /\ cmdState = "none"
       /\ wpc = "none"
       /\ active = 0
       /\ mode = "run" => (runRet.returned /\ runRet.err = NotSupported)

C13_Witness ==
    /\ backend = "local"
    /\ cmd.tty
    /\ mode = "run"
    /\ startPc = "failed"
    /\ runRet.returned
    /\ runRet.err = NotSupported
    /\ ~runRet.hasRes
    /\ active = 0

\* C14 (as claimed): in the remote line every argument a appears as the
\* token ' a-with-each-'-replaced-by-'\'' ' , whether or not a holds
\* whitespace.
C14_ArgsSingleQuoted ==
    sh.pc = "built" =>
      \A i \in 1..Len(sh.c.Args) :
        LET tok == <<"'">> \o EscapeQuotes(sh.c.Args[i]) \o <<"'">>
        IN  \E k \in 1..(Len(sh.line) - Len(tok) + 1) :
              SubSeq(sh.line, k, k + Len(tok) - 1) = tok

\* C15 (as claimed): the remote line is the Env prefixes in input order,
\* then the directory change, then the single-quoted binary and the
\* single-quoted arguments.
C15_LineLayout ==
    sh.pc = "built" =>
      sh.line =
        buildEnvPrefix(sh.c.Env, sh.isWindows)
        \o buildDirPrefix(sh.c.Dir, sh.isWindows)
        \o <<"'">> \o EscapeQuotes(sh.c.Cmd) \o <<"'">>
        \o Concat([i \in 1..Len(sh.c.Args) |->
                     <<" ", "'">> \o EscapeQuotes(sh.c.Args[i]) \o <<"'">>])

\* C16: with WithSudo every Command env.Run receives has Cmd "sudo" and Args
\* -n, -u User, -g Group, -E, the custom flags, --, the original Cmd and the
\* original Args, in that order; without it the Command is passed as it
\* is; every attempt of a Run call receives the same Command.
C16_SudoWrappedOnce ==
    /\ Len(ex.passed) = Len(ex.log)
    /\ \A i \in 1..Len(ex.passed) :
         LET sc == ex.sudo
             c == IF ex.entry = "RunBuffered" THEN BufferedCommand(ex.orig)
                  ELSE IF ex.entry = "RunInteractiveTTY"
                  THEN TtyCommand(ex.orig)
                  ELSE ex.orig
             u == IF sc.User = "" THEN <<>> ELSE <<"-u", sc.User>>
             g == IF sc.Group = "" THEN <<>> ELSE <<"-g", sc.Group>>
             e == IF sc.PreserveEnv THEN <<"-E">> ELSE <<>>
         IN  /\ ex.passed[i] = ex.passed[1]
             /\ sc.set =>
                  /\ ex.passed[i].Cmd = "sudo"
                  /\ ex.passed[i].Args =
                       <<"-n">> \o u \o g \o e \o sc.CustomFlags
                       \o <<"--", c.Cmd>> \o c.Args
                  /\ ex.passed[i] = [c EXCEPT !.Cmd = "sudo",
                                              !.Args = ex.passed[i].Args]
             /\ ~sc.set => ex.passed[i] = c

C16_Witness ==
    /\ ex.pc = "done"
    /\ ex.entry = "Run"
    /\ ex.sudo = [set |-> TRUE, User |-> "postgres", Group |-> "admin",
                  PreserveEnv |-> TRUE, CustomFlags |-> <<"--custom">>]
    /\ Len(ex.passed) = 2
    /\ ex.passed[2].Cmd = "sudo"
    /\ ex.passed[2].Args = <<"-n", "-u", "postgres", "-g", "admin", "-E",
                             "--custom", "--", "ps", "aux">>

\* C17: the Command the caller supplied is never modified: at every moment
\* of Run with sudo, RunBuffered, RunLineStream and RunInteractiveTTY it
\* equals its value at the call.
C17_CallerCommandUntouched ==
    ex.pc # "off" => ex.heap[ex.arg] = ex.orig

C17_Witness ==
    /\ ex.pc = "done"
    /\ ex.entry = "RunBuffered"
    /\ ex.sudo.set
    /\ Len(ex.heap) = 3
    /\ ex.heap[2].Stdout = "stdoutBuf"
    /\ ex.heap[3].Cmd = "sudo"
    /\ ex.heap[1] = ex.orig
    /\ ex.orig.Stdout = "w"
    /\ Len(ex.passed) >= 1

C19_StreamError ==
    ls.pc = "done" =>
      IF ls.startErr # Nil
      THEN ls.ret = ls.startErr /\ ls.delivered = <<>> /\ ls.spc = "none"
      ELSE IF ls.waitErr # Nil THEN ls.ret = ls.waitErr
      ELSE IF ls.serr # Nil THEN ls.ret = WrappedScanErr
      ELSE ls.ret = Nil

C19_Witness ==
    /\ ls.pc = "done"
    /\ ls.startErr = Nil
    /\ ls.waitErr = ExitError(1)
    /\ ls.serr = ScanErr
    /\ ls.ret = ExitError(1)

\* C20 (as claimed): once Start has succeeded, Environment.Run returns a
\* non-nil Result, also when it returns an error; for a command that ended
\* on its own with a non-zero code N that Result carries ExitCode N and the
\* error is the ExitError of N; on every backend.
C20_RunAlwaysReturnsResult ==
    (runRet.returned /\ startPc = "started") =>
        /\ runRet.hasRes
        /\ (/\ cmdState = "exited" /\ cmd.code # 0
            /\ ~ctxCancelled /\ ~envClosed
            /\ ~hist.sig /\ ~hist.close /\ ~hist.fault)
           => /\ runRet.ExitCode = cmd.code
              /\ runRet.err = ExitError(cmd.code)

\* C21 (as claimed): Start and Run with a nil Command, or one whose Cmd is
\* empty or blank, return a non-nil error and never panic, start no process
\* and open no session, and leave the active count as it was; on every
\* backend.
C21_InvalidCommandRejected ==
    cmd.form # "ok" =>
        /\ startPc \in {"idle", "spawn", "failed"}
        /\ cmdState = "none"
        /\ chanState = "none"
        /\ startPc # "spawn" => active = 0
        /\ \A r \in opLog : r.op \in {"Start", "Run"} => r.err # Nil

\* C22: on the local backend a Wait on a Process that was never started
\* returns the "not started" error without blocking; a Wait entered after
\* Close was called on the Process returns the "already closed" error
\* without blocking, whether or not the command had completed; a Start on
\* a closed environment returns an error and spawns nothing.
C22_LocalWaitRefusals ==
    backend = "local" =>
        /\ \A r \in waitLog :
              /\ (~r.started /\ ~r.afterClose)
                    => r.err = NotStarted /\ ~r.blocked
              /\ r.afterClose => r.err = ProcClosed /\ ~r.blocked
        /\ \A t \in AllCallers : tPc[t] # "waitBlockedClosed"
        /\ \A r \in opLog :
              (r.op = "Start" /\ r.closed) => r.err # Nil
        /\ ~hist.startOnClosed

\* a Wait refused as "already closed" while the command is still running
C22_Witness ==
    /\ backend = "local"
    /\ startPc = "started"
    /\ cmdState = "killed"
    /\ ~doneClosed
    /\ \E r \in waitLog : r.afterClose /\ r.err = ProcClosed /\ ~r.blocked

\* C23 (as claimed): every Environment.Close returns nil, and the
\* connection or daemon client is closed at most once; on every backend.
C23_EnvCloseAlwaysNil ==
    /\ ~hist.envCloseErr
    /\ clientCloses <= 1

\* C24 (as claimed): when a Process.Close call that was made while the
\* command was still running returns, the watcher has published the Result
\* and closed done; for every caller, on every backend.
C24_CloseObservesTermination ==
    \A r \in closeLog : r.live => doneClosed /\ result.set

C26_PublishedBeforeDone ==
    /\ doneClosed => result.set /\ wpc = "done"
    /\ \A r \in waitLog :
          r.blocked => /\ doneClosed
                       /\ result.set
                       /\ r.err = WaitErr(result)
    /\ (backend = "local" /\ cmdState = "running") => ~result.set
    /\ (backend = "local" /\ result.set /\ result.ExitCode = KilledLocal)
          => cmdState = "killed"

\* a Wait that blocked returns after the local Close killed the command
C26_Witness ==
    /\ backend = "local"
    /\ kills = 1
    /\ result.set
    /\ result.ExitCode = KilledLocal
    /\ \E r \in waitLog : r.blocked /\ r.err = ExitError(KilledLocal)

\* C27: in the docker backend the exit-code poll is entered only after the
\* output copier has finished, also under cancellation and Signal, and the
\* Result is published only after the poll has ended.
C27_DrainBeforePoll ==
    backend = "docker" =>
        /\ wpc \notin {"none", "wait"} => copierDone
        /\ result.set => wpc \in {"release", "dec", "close", "done"}

\* the first inspect is about to be issued after a cancellation closed the
\* stream under a command that is still running
C27_Witness ==
    /\ backend = "docker"
    /\ ctxCancelled
    /\ cmdState = "running"
    /\ wpc = "poll"
    /\ copierDone
    /\ ~result.set

\* C28: the docker exit-code poll always ends, whatever the caller's
\* context: with the inspect response and a nil error once an inspect
\* reports the exec not running, with the daemon's error on a failed
\* inspect, with the deadline error once its own timeout has passed; and a
\* Wait that returns after a poll timeout returns that error, which is
\* non-nil and not an ExitError.
C28_PollTerminates ==
    /\ [](/\ wpc = "publish" =>
               /\ wres.Error \in {Nil, DaemonErr, PollTimeout}
               /\ wres.Error = Nil =>
                     /\ cmdState # "running"
                     /\ wres.ExitCode = InspectExitCode
          /\ \A r \in waitLog :
               (r.blocked /\ result.Error = PollTimeout)
                  => r.err = PollTimeout /\ r.err.kind # "ExitError")
    /\ (wpc \in {"poll", "repoll", "pollSelect"})
          ~> (wpc \notin {"poll", "repoll", "pollSelect"})

\* a Wait has returned the deadline error of a poll that ran out under a
\* cancelled context while the command went on running
C28_Witness ==
    /\ backend = "docker"
    /\ ctxCancelled
    /\ cmdState = "running"
    /\ result.Error = PollTimeout
    /\ \E r \in waitLog : r.blocked /\ r.err = PollTimeout

\* C29 (as claimed): a local Process.Close made while the watcher is
\* unfinished kills the process group and returns only after the watcher
\* has published the Result and closed done; made after the watcher has
\* finished it sends no kill; made on a Process that was never started it
\* only marks the Process closed.
C29_LocalCloseKillsAndJoins ==
    backend = "local" =>
        /\ \A r \in closeLog :
              /\ r.pending => r.killed /\ doneClosed /\ result.set
              /\ ~r.pending => ~r.killed
        /\ mode = "bare" =>
              /\ kills = 0
              /\ cmdState = "none"
              /\ closeLog # {} => pClosed


\* ----------------------------------------------------------- active count

\* Several Start calls on one Environment, each from its own goroutine, and
\* Environment.Close.  Only what touches Environment.active is kept of each
\* Process: the launch and the watcher's deferred calls.

\* Environment.Start up to process.start: under e.mu, the closed check and
\* e.active++.
StartEnter(i) ==
    /\ starts[i] = "none"
    /\ IF envClosed
       THEN /\ starts' = [starts EXCEPT ![i] = "rejected"]
            /\ UNCHANGED active
       ELSE /\ starts' = [starts EXCEPT ![i] = "spawn"]
            /\ active' = active + 1
    /\ UNCHANGED <<backend, cmd, mode, group, sh, ls, envClosed, clientCloses, connUp,
                   ctxCancelled, cmdState, startPc, procVars, callVars,
                   opLog, hist, ex>>

ActiveAfterFailedStartKept(a) == a

\* Environment.Start after process.start has failed: e.active-- under e.mu
ActiveAfterFailedStart(a) == a - 1

\* process.start and what Environment.Start does with its error; on success
\* the watcher goroutine exists and Start returns the Process.
StartLaunch(i) ==
    /\ starts[i] = "spawn"
    /\ \E e \in LaunchErrors :
         IF e # Nil
         THEN /\ starts' = [starts EXCEPT ![i] = "failed"]
              /\ active' = ActiveAfterFailedStart(active)
         ELSE /\ starts' = [starts EXCEPT ![i] = "running"]
              /\ UNCHANGED active
    /\ UNCHANGED <<backend, cmd, mode, group, sh, ls, envClosed, clientCloses, connUp,
                   ctxCancelled, cmdState, startPc, procVars, callVars,
                   opLog, hist, ex>>

\* watcher: the native wait has returned and the Result is published; the
\* deferred p.env.decrementActive() runs.
WatcherDecrementActive(i) ==
    /\ starts[i] = "running"
    /\ starts' = [starts EXCEPT ![i] = "decremented"]
    /\ active' = active - 1
    /\ UNCHANGED <<backend, cmd, mode, group, sh, ls, envClosed, clientCloses, connUp,
                   ctxCancelled, cmdState, startPc, procVars, callVars,
                   opLog, hist, ex>>

\* watcher: the deferred close(p.done), after which the goroutine is gone
WatcherFinish(i) ==
    /\ starts[i] = "decremented"
    /\ starts' = [starts EXCEPT ![i] = "done"]
    /\ UNCHANGED <<backend, cmd, mode, group, sh, ls, envVars, ctxCancelled, cmdState,
                   startPc, procVars, callVars, opLog, hist, ex>>

InitActive ==
    /\ Init
    /\ mode = "start"

NextActive ==
    \/ \E i \in StartIds : StartEnter(i)
    \/ \E i \in StartIds : StartLaunch(i)
    \/ \E i \in StartIds : WatcherDecrementActive(i)
    \/ \E i \in StartIds : WatcherFinish(i)
    \/ EnvClose

SpecActive == InitActive /\ [][NextActive]_vars

\* the Start calls that have incremented the count and whose Process has
\* neither failed to start nor had its watcher reach its decrement
Outstanding == {i \in StartIds : starts[i] \in {"spawn", "running"}}

\* C30: the active-process count of an Environment is never negative and is
\* always the number of Start calls that got past the closed check and whose
\* Process has neither failed to start nor been finished by its watcher; it
\* is zero again once no such Start is left.
C30_ActiveCountsOutstandingStarts ==
    /\ active >= 0
    /\ active = Cardinality(Outstanding)
    /\ (\A i \in StartIds : starts[i] \in {"failed", "done", "rejected"})
          => active = 0

\* two Processes are running at once while a third Start has failed
C30_Witness ==
    /\ active = 2
    /\ \E i \in StartIds : starts[i] = "failed"


\* ---------------------------------------------------------- process group

\* A local command that leaves a descendant in the process group that
\* setProcessGroup gave it; the caller holds the Process.
InitGroup ==
    /\ InitCommon
    /\ backend = "local"
    /\ mode = "start"
    /\ cmd.form = "ok"
    /\ ~cmd.tty
    /\ ex = NoExec
    /\ sh = NoSh
    /\ ls = NoLs
    /\ \E pi \in BOOLEAN :
         group = [forks |-> TRUE, piped |-> pi, desc |-> "none"]

NextGroup ==
    \/ StartBegin
    \/ StartSpawn
    \/ Cancel
    \/ CmdExit
    \/ DescExit
    \/ LocalCtxKill
    \/ LocalWatcherWait
    \/ WatcherPublish
    \/ WatcherDec
    \/ WatcherCloseDone
    \/ \E t \in Callers : CallWait(t)
    \/ \E t \in Callers : WaitReturn(t)
    \/ \E t \in Callers : CallClose(t)
    \/ \E t \in Callers : LocalCloseSelect(t)
    \/ \E t \in Callers : LocalCloseKill(t)
    \/ \E t \in Callers : LocalCloseJoin(t)

SpecGroup == InitGroup /\ [][NextGroup]_vars

\* C31: on the local backend, once Close has killed a running Process or the
\* cancellation of its context has, no process of its group is running any
\* more when the Result is published, and the native wait the watcher (and so
\* Wait) depends on is not held up by a descendant that survived.
C31_GroupTerminated ==
    backend = "local" /\ (kills > 0 \/ hist.termMid) =>
        /\ result.set => group.desc # "running"
        /\ wpc = "wait" => ~PipeHeld


\* C32: in the ssh backend the watcher classifies what session.Wait() gave:
\* nil is ExitCode 0 and Wait returns nil; an exit-status error is that status
\* as ExitCode and Wait returns an ExitError carrying it; any other error is
\* the fallback ExitCode 255 with the error kept in Result.Error, and Wait
\* returns that very error, which is no ExitError.
C32_SshClassification ==
    backend = "ssh" /\ result.set =>
        /\ result.Error = nativeErr
        /\ result.Error = Nil => result.ExitCode = 0
        /\ result.Error.kind = "sshExit" =>
              result.ExitCode = result.Error.code
        /\ result.Error # Nil /\ result.Error.kind # "sshExit" =>
              result.ExitCode = SshFallback
        /\ \A r \in waitLog :
              r.err # ProcClosed =>
                 /\ result.Error = Nil => r.err = Nil
                 /\ result.Error.kind = "sshExit" =>
                       r.err = ExitError(result.ExitCode)
                 /\ result.Error # Nil /\ result.Error.kind # "sshExit" =>
                       /\ r.err = result.Error
                       /\ r.err.kind # "ExitError"

\* a Wait has returned an exit status reported over ssh
C32_Witness ==
    /\ backend = "ssh"
    /\ result.set
    /\ result.Error.kind = "sshExit"
    /\ \E r \in waitLog : r.err = ExitError(result.ExitCode)


\* Executor.Run has returned (RunInteractiveTTY ends without calling it when
\* the terminal cannot be put into raw mode)
ExecRunReturned == ex.pc = "done" /\ ex.ret.err.kind # "raw"

\* C33: every non-nil error Executor.Run returns falls into exactly one of
\* the categories ExitError, TransportError, not-supported and
\* environment-closed, whatever env.Run returned and also when the context
\* is cancelled during the retry delay.
C33_ExactlyOneCategory ==
    ExecRunReturned /\ ex.ret.err # Nil =>
        Cardinality(Categories(ex.ret.err)) = 1


\* ------------------------------------------------------------ docker Signal

\* The docker backend with callers that wait for, signal and close the
\* Process; every goroutine of the Process is scheduled, and so is a caller
\* whose Wait can return.
InitSignal ==
    /\ InitPoll
    \* what the command would have exited with plays no part
    /\ cmd.code = 0

NextSignal ==
    \/ NextPoll
    \/ \E t \in Callers : CallSignal(t)
    \/ \E t \in Callers : CallClose(t)

SpecSignal ==
    /\ InitSignal
    /\ [][NextSignal]_vars
    /\ WF_vars(DockerCopierEnd)
    /\ WF_vars(DockerWatcherDrain)
    /\ WF_vars(DockerInspect \/ DockerInspectErr)
    /\ WF_vars(DockerPollTick \/ DockerPollDeadline)
    /\ SF_vars(DockerPollDeadline)
    /\ WF_vars(WatcherPublish)
    /\ WF_vars(WatcherRelease)
    /\ WF_vars(WatcherDec)
    /\ WF_vars(WatcherCloseDone)
    /\ \A t \in Callers : WF_vars(WaitReturn(t))

C35_RunLeavesNoActive ==
    mode = "run" /\ runRet.returned => active = 0


\* Result.Success()
Success(r) == r.ExitCode = 0 /\ r.Error = Nil

\* C36: on every backend a Wait that was not refused returns nil exactly
\* when the published Result is a success; an ExitError it returns carries
\* the Result's exit code, which is then not zero; and the Result, once
\* written, is never written again.
C36_WaitAgreesWithResult ==
    /\ [](\A r \in waitLog :
            r.err \notin {ProcClosed, NotStarted} =>
               /\ result.set
               /\ r.err = Nil <=> Success(result)
               /\ r.err.kind = "ExitError" =>
                     /\ r.err.code = result.ExitCode
                     /\ r.err.code # 0)
    /\ [][result.set => result' = result]_vars

\* a Wait has returned an ExitError for a published non-zero exit code
C36_Witness ==
    /\ result.set
    /\ result.ExitCode # 0
    /\ \E r \in waitLog : r.err = ExitError(result.ExitCode)


\* ------------------------------------------------- the cancellation monitor

\* An ssh or docker Process with its watcher and monitor, callers that wait
\* for it and close it, and a context that may be cancelled; the monitor
\* goroutine is scheduled.
InitMonitor ==
    /\ Init
    /\ backend # "local"
    /\ mode = "start"
    \* what the command exits with plays no part
    /\ cmd.code = 0

NextMonitor ==
    \/ NextPoll
    \/ SshRemoteEnd
    \/ SshCloseEnd
    \/ SshConnDrop
    \/ SshWatcherWait
    \/ \E t \in Callers : CallClose(t)

SpecMonitor ==
    /\ InitMonitor
    /\ [][NextMonitor]_vars
    /\ WF_vars(MonitorSelectCancel \/ MonitorSelectDone)
    /\ WF_vars(MonitorSignal)
    /\ WF_vars(MonitorClose)

\* C37: the cancellation monitor of an ssh or docker Process leaves its
\* select only through the cancelled context or through doneCheck, which the
\* watcher closes after its native wait or output drain, and it always
\* terminates: once the watcher has finished, the monitor finishes too.
C37_MonitorTerminates ==
    /\ [](/\ mpc \in {"signal", "close"} => ctxCancelled
          /\ mpc = "done" => ctxCancelled \/ wpc \notin {"none", "wait"})
    /\ (mpc # "none" /\ wpc = "done") ~> (mpc = "done")

\* the monitor has ended through doneCheck, the context never cancelled
C37_Witness ==
    /\ mpc = "done"
    /\ ~ctxCancelled
    /\ wpc = "done"


\* C38: Executor.Run calls env.Run at least once and at most RetryAttempts
\* times, RetryAttempts being 1 without WithRetry and never below 1 with it;
\* it waits the retry delay only after an attempt and before a further one;
\* and it returns a nil error only when the last attempt made returned a nil
\* error with a nil Result or a Result of exit code 0.
C38_AttemptsBounded ==
    ex.pc # "off" /\ ex.entry # "RunLineStream" =>
        /\ ex.attempts >= 1
        /\ ~ex.retry.set => ex.attempts = 1
        /\ ex.retry.set =>
              ex.attempts = IF ex.retry.attempts < 1 THEN 1
                            ELSE ex.retry.attempts
        /\ Len(ex.log) <= ex.attempts
        /\ ex.pc = "delay" => 1 <= Len(ex.log) /\ Len(ex.log) < ex.attempts
        /\ ExecRunReturned =>
              /\ Len(ex.log) >= 1
              /\ ex.ret.err = Nil =>
                    LET o == ex.log[Len(ex.log)]
                    IN  o.err = Nil /\ (~o.hasRes \/ o.code = 0)

\* WithRetry(0, d): one attempt was made, it succeeded, Run returned nil
C38_Witness ==
    /\ ex.pc = "done"
    /\ ex.retry = [set |-> TRUE, attempts |-> 0]
    /\ Len(ex.log) = 1
    /\ ex.ret.err = Nil


\* Executor.Run has returned out of e.wait: fewer attempts were made than
\* allowed, and the last one made was neither a success nor an ExitError
ReturnedFromDelay ==
    /\ ExecRunReturned
    /\ ex.entry # "RunLineStream"
    /\ Len(ex.log) >= 1
    /\ Len(ex.log) < ex.attempts
    /\ ~ExecSuccess(ex.log[Len(ex.log)])
    /\ ~ExecTerminal(ex.log[Len(ex.log)])

\* C39: when the context is cancelled while Executor.Run waits out the retry
\* delay, Run makes no further attempt and returns a nil Result with the
\* context's error itself, not a TransportError and not what the previous
\* attempt returned.
C39_CancelledDelay ==
    ReturnedFromDelay =>
        /\ ex.ctxDone
        /\ ex.ret = Outcome(FALSE, 0, CtxErr)
        /\ ex.ret.err.kind # "TransportError"
        /\ ex.ret.err # ex.log[Len(ex.log)].err

\* Run was cancelled in the delay after an attempt that had produced a Result
C39_Witness ==
    /\ ReturnedFromDelay
    /\ ex.log[Len(ex.log)].hasRes
    /\ ex.attempts = 3
    /\ Len(ex.log) = 2


\* what the first n attempts printed on one stream, in attempt order
RECURSIVE Printed(_, _)
Printed(log, n) ==
    IF n = 0 THEN <<>> ELSE Printed(log, n - 1) \o Output(log[n], n)

\* C40: RunBuffered always returns a non-nil BufferedResult, with an error
\* or without; an ExitError it returns carries the captured stderr; and the
\* returned Stdout and Stderr hold, in attempt order, what every attempt
\* printed.
C40_BufferedResult ==
    ex.entry = "RunBuffered" /\ ex.pc = "done" /\ ex.bret # NoBuffered =>
        /\ ex.bret.nonNil
        /\ ex.bret.err = ex.ret.err
        /\ ex.bret.err.kind = "ExitError" =>
              ex.bret.errStderr = ex.bret.Stderr
        /\ ex.bret.Stdout = Printed(ex.log, Len(ex.log))
        /\ ex.bret.Stderr = Printed(ex.log, Len(ex.log))

\* three attempts that each printed something, the last one ending in an
\* ExitError that was returned with all of the stderr
C40_Witness ==
    /\ ex.entry = "RunBuffered"
    /\ ex.bret.nonNil
    /\ ex.bret.err.kind = "ExitError"
    /\ ex.bret.errStderr = <<1, 2, 3>>
    /\ ex.bret.Stdout = <<1, 2, 3>>

====
